---- MODULE Spec2Model ----
(***************************************************************************)
(* ClearLink driver: the Protocol Layer (ClearLinkEIP, clearlink_eip.py)   *)
(* and the Control Layer (ClearLinkControl, clearlink_control.py) as a     *)
(* state machine.  Every public call is one action; the transport          *)
(* (pycomm3's CIPDriver) is external, so each call draws the responses the *)
(* transport gives to its requests from a bounded set (a script of the     *)
(* first responses, then a steady response for reads and one for writes).  *)
(***************************************************************************)
EXTENDS Integers, Sequences, FiniteSets, TLC

(***************************************************************************)
(* Bounds of the model.                                                    *)
(***************************************************************************)
\* the configured num_axes of the controller object
NumAxes == 2
\* the number of leading transport responses a call may choose one by one
MaxScript == 1
\* cap on the Control Layer's two cumulative counters
MaxCount == 3
\* the number of threads calling the Control Layer
NumThreads == 2

(***************************************************************************)
(* Program constants.                                                      *)
(***************************************************************************)
MOTOR_CONFIG_CLASS == 100
MOTOR_INPUT_CLASS == 101
MOTOR_OUTPUT_CLASS == 102
ATTR_CFG_NEG_SOFT_LIMIT == 1
ATTR_CFG_POS_SOFT_LIMIT == 2
ATTR_OUT_JOG_VEL == 2
ATTR_OUT_VEL_LIMIT == 3
ATTR_OUT_ACCEL == 4
ATTR_OUT_DECEL == 5
ATTR_OUT_OUTPUT_REG == 6
ATTR_IN_CMD_POSITION == 1
ATTR_IN_CMD_VELOCITY == 2
ATTR_IN_TORQUE == 6
ATTR_IN_STATUS_REG == 7
ATTR_IN_SHUTDOWN_REG == 8
BIT_ENABLE == 1
BIT_LOAD_VEL_MOVE == 16
BIT_CLEAR_ALERTS == 64
BIT_CLEAR_MOTOR_FAULT == 128
BIT_STEPS_ACTIVE == 2
BIT_MOTOR_FAULT == 512
BIT_ENABLED == 1024
BIT_SHUTDOWNS_PRESENT == 131072
BIT_LOAD_VEL_MOVE_ACK == 1048576
\* 1 << 12, the ReadyToHome bit tested in get_axis_status
BIT_READY_TO_HOME == 4096
\* _max_read_failures
MaxReadFailures == 3
\* the mask set_motor_enable tests the shutdown register with
ENABLE_BLOCKING_MASK == 1024
\* non_blocking in get_axis_status
NON_BLOCKING == 1057
\* range(50) in stop_motor, range(10) in trigger_move, range(3) in step 5
StopPolls == 50
TriggerPolls == 10
ClearAttempts == 3
\* the headroom set_velocity adds to |velocity| for the velocity limit
VelHeadroom == 100000
\* the values _init_axes writes
InitSoftLimit == 2000000000
InitVelLimit == 1000000
InitAccel == 500000
\* whether the import of pycomm3 succeeded
PYCOMM3_AVAILABLE == TRUE

Axes == 1..NumAxes

(***************************************************************************)
(* Encodings.  A payload is the 4 bytes of a request, little endian.       *)
(***************************************************************************)
\* value.to_bytes(4, 'little', signed = value < 0): the two's complement bytes
ToBytes(value) ==
    << value % 256, (value \div 256) % 256,
       (value \div 65536) % 256, (value \div 16777216) % 256 >>

\* int.from_bytes(b, 'little', signed=True)
FromBytes(b) ==
    b[1] + 256 * b[2] + 65536 * b[3]
      + 16777216 * (IF b[4] >= 128 THEN b[4] - 256 ELSE b[4])

\* a Python int of more than 32 bits is held as the pair hi, lo of
\* value = hi * 2^16 + lo with 0 <= lo < 2^16
Half == 65536
WideOf(value) == [hi |-> value \div Half, lo |-> value % Half]

\* value.to_bytes(4, 'little', signed = value < 0) raises OverflowError: a
\* negative value below -2^31, or a value of 2^32 or more
ToBytesOverflows(v) == v.hi < -(Half \div 2) \/ v.hi >= Half

\* value.to_bytes(4, 'little', signed = value < 0) of such a pair
ToBytesWide(v) ==
    << v.lo % 256, v.lo \div 256, v.hi % 256, (v.hi \div 256) % 256 >>

\* Python's x & m for a mask m >= 0 (x of either sign, two's complement)
RECURSIVE BitAnd(_, _)
BitAnd(x, m) ==
    IF m = 0 THEN 0
    ELSE (x % 2) * (m % 2) + 2 * BitAnd(x \div 2, m \div 2)

\* Python's x & ~m for a mask m >= 0: the bits of x outside m
AndNot(x, m) == x - BitAnd(x, m)

Abs(x) == IF x < 0 THEN -x ELSE x

(***************************************************************************)
(* The transport's responses.  "exc": the request raises; "err": it        *)
(* returns a result that is falsy or carries no value; "val": it returns   *)
(* the payload v.                                                          *)
(***************************************************************************)
RegVals == {0, BIT_ENABLE + BIT_LOAD_VEL_MOVE, BIT_ENABLED, BIT_LOAD_VEL_MOVE_ACK}

Exc == [k |-> "exc", v |-> <<>>]
Err == [k |-> "err", v |-> <<>>]
Val(x) == [k |-> "val", v |-> ToBytes(x)]

Resp == {Exc, Err} \cup {Val(x) : x \in RegVals}

RECURSIVE SeqsOf(_, _)
SeqsOf(S, n) ==
    IF n = 0 THEN {<<>>}
    ELSE {<<x>> \o s : x \in S, s \in SeqsOf(S, n - 1)}

\* what the transport will answer during one call: the first n answers one
\* by one, then a steady answer to reads (rtail; ftail to reads of the torque)
\* and a steady answer to writes
OraclesOf(n) ==
    {[script |-> s, rtail |-> r, ftail |-> r, wtail |-> x] :
        s \in SeqsOf(Resp, n), r \in Resp, x \in {Exc, Val(0)}}

\* the transport answering steadily, and answering with a script first
Steady == OraclesOf(0)
Scripted == OraclesOf(MaxScript)
\* a device whose status register shows the ack from the second poll after a
\* trigger on: the first status read, the two writes of a stop and the first
\* poll are answered with 0, every later read with the ack bit alone
AckAfterTwo ==
    [script |-> <<Val(0), Val(0), Val(0), Val(0)>>,
     rtail |-> Val(BIT_LOAD_VEL_MOVE_ACK), ftail |-> Val(BIT_LOAD_VEL_MOVE_ACK),
     wtail |-> Val(0)]
\* the transport answering every read with the non-blocking mask, with a
\* part of it, or with the mask and one more bit
MaskReads ==
    {[script |-> <<>>, rtail |-> Val(x), ftail |-> Val(x), wtail |-> Val(0)] :
        x \in {NON_BLOCKING, NON_BLOCKING - 1, NON_BLOCKING + 2}}
\* the number of attributes get_axis_status reads
StatusReads == 5
\* a register value that moves every field of an AxisStatus off its default
Busy == BIT_ENABLED + BIT_STEPS_ACTIVE
\* the transport answering each read of one get_axis_status on its own: by
\* raising, with an empty result, or with a value
PerRead ==
    {[script |-> s, rtail |-> Val(0), ftail |-> Val(0), wtail |-> Val(0)] :
        s \in SeqsOf({Exc, Err, Val(Busy)}, StatusReads)}
\* the transport answering the first request by raising or with 0, reads
\* after it by raising, with 0 or with the ack bit, writes after it by
\* raising or not
Flaky ==
    {o \in Scripted :
        /\ o.script[1] \in {Exc, Val(0)}
        /\ o.rtail \in {Exc, Val(0), Val(BIT_LOAD_VEL_MOVE_ACK)}}
\* the transport answering steadily, reads of the torque raising or not
SteadyTorque == Steady \cup {[o EXCEPT !.ftail = Exc] : o \in Steady}

(***************************************************************************)
(* The state of one call in progress ("world"): the Protocol Layer's       *)
(* fields, what is left of the transport's answers, the requests issued so *)
(* far (trace, consecutive equal requests counted), the Protocol Layer     *)
(* calls made so far (calls), and the value the last step returned          *)
(* (ok for a boolean, some/val for an Optional[int], n for a loop count).  *)
(***************************************************************************)
\* one statement after another: w is the state a statement leaves, Rest what
\* the following statements make of it
Then(w, Rest(_)) == Rest(w)

Request(svc, class_id, instance, attribute, data) ==
    [svc |-> svc, cls |-> class_id, inst |-> instance, attr |-> attribute,
     data |-> data]

\* the transport is asked: the request is recorded and one answer consumed
Issue(w, req) ==
    LET t == w.trace
        logged == IF Len(t) > 0 /\ t[Len(t)].req = req
                  THEN [t EXCEPT ![Len(t)].n = @ + 1]
                  ELSE Append(t, [req |-> req, n |-> 1])
    IN [w EXCEPT !.trace = logged,
                 !.script = IF @ = <<>> THEN @ ELSE Tail(@)]

\* the answer the transport gives to the next request
Answer(w, svc) ==
    IF w.script # <<>> THEN Head(w.script)
    ELSE CASE svc = "get" -> w.rtail
           [] svc = "getf" -> w.ftail
           [] OTHER -> w.wtail

\* _write_attr as it would be if a write that raises took the link down
WriteAttrMarksDisconnected(w, class_id, instance, attribute, value) ==
    IF ~w.connected \/ ~w.driver THEN [w EXCEPT !.ok = FALSE]
    ELSE Then(Issue(w, Request("set", class_id, instance, attribute,
                               ToBytes(value))),
              LAMBDA w1 :
                IF Answer(w, "set").k = "exc"
                THEN [w1 EXCEPT !.ok = FALSE, !.connected = FALSE,
                                !.connection_error = "Write failure"]
                ELSE [w1 EXCEPT !.ok = TRUE])

\* ClearLinkEIP._write_attr
WriteAttr(w, class_id, instance, attribute, value) ==
    IF ~w.connected \/ ~w.driver THEN [w EXCEPT !.ok = FALSE]
    ELSE [Issue(w, Request("set", class_id, instance, attribute,
                           ToBytes(value)))
            EXCEPT !.ok = (Answer(w, "set").k # "exc")]

\* ClearLinkEIP._write_attr given a value as a pair: to_bytes is evaluated
\* inside the try, before the request is made
WriteAttrWide(w, class_id, instance, attribute, v) ==
    IF ~w.connected \/ ~w.driver THEN [w EXCEPT !.ok = FALSE]
    ELSE IF ToBytesOverflows(v) THEN [w EXCEPT !.ok = FALSE]
    ELSE [Issue(w, Request("set", class_id, instance, attribute,
                           ToBytesWide(v)))
            EXCEPT !.ok = (Answer(w, "set").k # "exc")]

\* the except branch as it would be with > for >= in the threshold test
ReadFailedLate(w) ==
    LET f == w.consecutive_read_failures + 1
        w1 == [w EXCEPT !.consecutive_read_failures = f,
                        !.some = FALSE, !.val = 0]
    IN IF f > MaxReadFailures
       THEN [w1 EXCEPT !.connected = FALSE,
                       !.connection_error = "Read failures"]
       ELSE w1

\* the except branch shared by _read_attr and _read_attr_float
ReadFailed(w) ==
    LET f == w.consecutive_read_failures + 1
        w1 == [w EXCEPT !.consecutive_read_failures = f,
                        !.some = FALSE, !.val = 0]
    IN IF f >= MaxReadFailures
       THEN [w1 EXCEPT !.connected = FALSE,
                       !.connection_error = "Read failures"]
       ELSE w1

\* what a read makes of the transport's answer a: the except branch when the
\* request raised, None when the result is falsy or carries no value, and
\* else the counter reset and the value decoded
Received(w, a) ==
    CASE a.k = "exc" -> ReadFailed(w)
      [] a.k = "err" -> [w EXCEPT !.some = FALSE, !.val = 0]
      [] OTHER -> [w EXCEPT !.consecutive_read_failures = 0,
                            !.some = TRUE, !.val = FromBytes(a.v)]

\* _read_attr as it would be without its test of the link
ReadAttrUnguarded(w, class_id, instance, attribute) ==
    Then(Issue(w, Request("get", class_id, instance, attribute, <<>>)),
         LAMBDA w1 : Received(w1, Answer(w, "get")))

\* ClearLinkEIP._read_attr
ReadAttr(w, class_id, instance, attribute) ==
    IF ~w.connected \/ ~w.driver THEN [w EXCEPT !.some = FALSE, !.val = 0]
    ELSE Then(Issue(w, Request("get", class_id, instance, attribute, <<>>)),
              LAMBDA w1 : Received(w1, Answer(w, "get")))

\* ClearLinkEIP._read_attr_float; the REAL is kept as the integer its 4 bytes
\* spell, which identifies the float
ReadAttrFloat(w, class_id, instance, attribute) ==
    IF ~w.connected \/ ~w.driver THEN [w EXCEPT !.some = FALSE, !.val = 0]
    ELSE Then(Issue(w, Request("get", class_id, instance, attribute, <<>>)),
              LAMBDA w1 : Received(w1, Answer(w, "getf")))

\* a transport that stores what is written: it answers the reads that
\* follow with the payload of the last request, a write
Storing(w) ==
    [w EXCEPT !.script = <<>>,
              !.rtail = [k |-> "val", v |-> w.trace[Len(w.trace)].req.data]]

\* _write_attr of a value and then _read_attr of the same attribute, the
\* transport storing the bytes written
RoundTrip(w, class_id, instance, attribute, v) ==
    Then(WriteAttrWide(w, class_id, instance, attribute, v),
         LAMBDA w1 :
           IF ~w1.ok
           THEN [w1 EXCEPT !.ret = [wrote |-> FALSE, some |-> FALSE,
                                    val |-> 0]]
           ELSE Then(ReadAttr(Storing(w1), class_id, instance, attribute),
                     LAMBDA w2 :
                       [w2 EXCEPT !.ret = [wrote |-> TRUE, some |-> w2.some,
                                           val |-> w2.val]]))

\* _write_output_reg as it would be if it kept the value whatever the
\* write returned
WriteOutputRegUnchecked(w, axis, value) ==
    IF axis < 1 \/ axis > w.num_axes THEN [w EXCEPT !.ok = FALSE]
    ELSE Then(WriteAttr(w, MOTOR_OUTPUT_CLASS, axis, ATTR_OUT_OUTPUT_REG,
                        value),
              LAMBDA w1 : [w1 EXCEPT !.output_reg[axis] = value])

\* ClearLinkEIP._write_output_reg
WriteOutputReg(w, axis, value) ==
    IF axis < 1 \/ axis > w.num_axes THEN [w EXCEPT !.ok = FALSE]
    ELSE Then(WriteAttr(w, MOTOR_OUTPUT_CLASS, axis, ATTR_OUT_OUTPUT_REG,
                        value),
              LAMBDA w1 :
                IF w1.ok THEN [w1 EXCEPT !.output_reg[axis] = value] ELSE w1)

\* ClearLinkEIP._read_status_reg
ReadStatusReg(w, axis) ==
    IF axis < 1 \/ axis > w.num_axes THEN [w EXCEPT !.some = FALSE, !.val = 0]
    ELSE ReadAttr(w, MOTOR_INPUT_CLASS, axis, ATTR_IN_STATUS_REG)

\* ClearLinkEIP._read_shutdown_reg
ReadShutdownReg(w, axis) ==
    IF axis < 1 \/ axis > w.num_axes THEN [w EXCEPT !.some = FALSE, !.val = 0]
    ELSE ReadAttr(w, MOTOR_INPUT_CLASS, axis, ATTR_IN_SHUTDOWN_REG)

\* a Protocol Layer call returns ret: its record is appended to the calls
Returned(w, op, axis, arg, ret, info) ==
    [w EXCEPT !.ret = ret,
              !.calls = Append(@, [op |-> op, axis |-> axis, arg |-> arg,
                                   ret |-> ret, info |-> info])]

\* a session event (open, close) of the transport is recorded in the trace
Session(w, what) ==
    [w EXCEPT !.trace = Append(@, [req |-> Request(what, 0, 0, 0, <<>>),
                                   n |-> 1])]

NoInfo == [none |-> TRUE]

(***************************************************************************)
(* Protocol Layer: connection.                                             *)
(***************************************************************************)
\* ClearLinkEIP._init_axes, from axis on
RECURSIVE InitAxes(_, _)
InitAxes(w, axis) ==
    IF axis > w.num_axes THEN w
    ELSE LET w1 == WriteAttr(w, MOTOR_CONFIG_CLASS, axis,
                             ATTR_CFG_NEG_SOFT_LIMIT, -InitSoftLimit)
             w2 == WriteAttr(w1, MOTOR_CONFIG_CLASS, axis,
                             ATTR_CFG_POS_SOFT_LIMIT, InitSoftLimit)
             w3 == WriteAttr(w2, MOTOR_OUTPUT_CLASS, axis,
                             ATTR_OUT_VEL_LIMIT, InitVelLimit)
             w4 == WriteAttr(w3, MOTOR_OUTPUT_CLASS, axis,
                             ATTR_OUT_ACCEL, InitAccel)
             w5 == WriteAttr(w4, MOTOR_OUTPUT_CLASS, axis,
                             ATTR_OUT_DECEL, InitAccel)
         IN InitAxes(w5, axis + 1)

\* how CIPDriver(ip) followed by open() can end
OpenOutcomes == {"ok", "ctor_exc", "open_exc"}

\* ClearLinkEIP.connect
Connect(w, open) ==
    IF ~PYCOMM3_AVAILABLE
    THEN Returned([w EXCEPT !.connection_error = "pycomm3 not installed"],
                  "connect", 0, open, FALSE, NoInfo)
    ELSE CASE open = "ok" ->
                LET w1 == Session([w EXCEPT !.driver = TRUE,
                                            !.connected = TRUE,
                                            !.connection_error = "",
                                            !.consecutive_read_failures = 0],
                                  "open")
                IN Returned(InitAxes(w1, 1), "connect", 0, open, TRUE, NoInfo)
           [] open = "open_exc" ->
                Returned([w EXCEPT !.driver = TRUE, !.connected = FALSE,
                                   !.connection_error = "open failed"],
                         "connect", 0, open, FALSE, NoInfo)
           [] OTHER ->
                Returned([w EXCEPT !.connected = FALSE,
                                   !.connection_error = "open failed"],
                         "connect", 0, open, FALSE, NoInfo)

\* ClearLinkEIP.disconnect (close() raising or not ends the same way)
Disconnect(w) ==
    IF w.driver
    THEN Returned(Session([w EXCEPT !.driver = FALSE, !.connected = FALSE,
                                    !.motors_enabled =
                                        [a \in 1..w.num_axes |-> FALSE]],
                          "close"),
                  "disconnect", 0, 0, TRUE, NoInfo)
    ELSE Returned(w, "disconnect", 0, 0, TRUE, NoInfo)

\* ClearLinkEIP.reconnect
Reconnect(w, open) == Connect(Disconnect(w), open)

(***************************************************************************)
(* Protocol Layer: motor control.                                          *)
(***************************************************************************)
\* clear_faults as it would be without its test of the axis
ClearFaultsUnchecked(w, axis) ==
    Then(ReadShutdownReg(
           WriteOutputReg(
             WriteOutputReg(w, axis, BIT_CLEAR_ALERTS + BIT_CLEAR_MOTOR_FAULT),
             axis, 0),
           axis),
         LAMBDA w3 :
           Returned(w3, "clear_faults", axis, 0, ~(w3.some /\ w3.val # 0),
                    [some |-> w3.some, shutdown |-> w3.val]))

\* ClearLinkEIP.clear_faults
ClearFaults(w, axis) ==
    IF axis < 1 \/ axis > w.num_axes
    THEN Returned(w, "clear_faults", axis, 0, FALSE, NoInfo)
    ELSE Then(ReadShutdownReg(
                WriteOutputReg(
                  WriteOutputReg(w, axis,
                                 BIT_CLEAR_ALERTS + BIT_CLEAR_MOTOR_FAULT),
                  axis, 0),
                axis),
              LAMBDA w3 :
                Returned(w3, "clear_faults", axis, 0,
                         ~(w3.some /\ w3.val # 0),
                         [some |-> w3.some, shutdown |-> w3.val]))

\* the test of the shutdown register at the end of a first-time enable
EnableBlocked(some, shutdown) ==
    (IF some /\ shutdown # 0 THEN BitAnd(shutdown, ENABLE_BLOCKING_MASK)
     ELSE 0) # 0

\* that branch as it would be if it marked the axis enabled before reading
\* the shutdown register
EnableFirstTimeMarksEarly(w, axis) ==
    Then(ReadShutdownReg(
           [WriteOutputReg(
              WriteOutputReg(
                WriteOutputReg(w, axis,
                               BIT_CLEAR_ALERTS + BIT_CLEAR_MOTOR_FAULT),
                axis, 0),
              axis, BIT_ENABLE) EXCEPT !.motors_enabled[axis] = TRUE],
           axis),
         LAMBDA w4 :
           Returned(w4, "set_motor_enable", axis, TRUE,
                    ~EnableBlocked(w4.some, w4.val),
                    [some |-> w4.some, shutdown |-> w4.val]))

\* the branch of set_motor_enable for an axis not marked enabled: clear the
\* faults, write Enable, read the shutdown register
EnableFirstTime(w, axis) ==
    Then(ReadShutdownReg(
           WriteOutputReg(
             WriteOutputReg(
               WriteOutputReg(w, axis,
                              BIT_CLEAR_ALERTS + BIT_CLEAR_MOTOR_FAULT),
               axis, 0),
             axis, BIT_ENABLE),
           axis),
         LAMBDA w4 :
           IF EnableBlocked(w4.some, w4.val)
           THEN Returned(w4, "set_motor_enable", axis, TRUE, FALSE,
                         [some |-> w4.some, shutdown |-> w4.val])
           ELSE Returned([w4 EXCEPT !.motors_enabled[axis] = TRUE],
                         "set_motor_enable", axis, TRUE, TRUE,
                         [some |-> w4.some, shutdown |-> w4.val]))

\* that branch as it would be if it wrote only over a nonzero shadow
DisableWhenSet(w, axis) ==
    Returned([(IF w.output_reg[axis] # 0 THEN WriteOutputReg(w, axis, 0)
               ELSE w) EXCEPT !.motors_enabled[axis] = FALSE],
             "set_motor_enable", axis, FALSE, TRUE, NoInfo)

\* the branch of set_motor_enable that disables
Disable(w, axis) ==
    Returned([WriteOutputReg(w, axis, 0) EXCEPT !.motors_enabled[axis] = FALSE],
             "set_motor_enable", axis, FALSE, TRUE, NoInfo)

\* set_motor_enable as it would be without the branch for an axis already
\* marked enabled
SetMotorEnableAlwaysClears(w, axis, enable) ==
    IF axis < 1 \/ axis > w.num_axes
    THEN Returned(w, "set_motor_enable", axis, enable, FALSE, NoInfo)
    ELSE IF enable THEN EnableFirstTime(w, axis)
    ELSE Disable(w, axis)

\* ClearLinkEIP.set_motor_enable
SetMotorEnable(w, axis, enable) ==
    IF axis < 1 \/ axis > w.num_axes
    THEN Returned(w, "set_motor_enable", axis, enable, FALSE, NoInfo)
    ELSE IF enable
    THEN IF w.motors_enabled[axis]
         THEN IF BitAnd(w.output_reg[axis], BIT_ENABLE) # 0
              THEN Returned(w, "set_motor_enable", axis, enable, TRUE, NoInfo)
              ELSE Returned(WriteOutputReg(w, axis, BIT_ENABLE),
                            "set_motor_enable", axis, enable, TRUE, NoInfo)
         ELSE EnableFirstTime(w, axis)
    ELSE Disable(w, axis)

\* set_velocity as it would be if it returned whether its writes succeeded
SetVelocityChecksWrites(w, axis, steps_per_sec, accel) ==
    IF axis < 1 \/ axis > w.num_axes
    THEN Returned(w, "set_velocity", axis, steps_per_sec, FALSE, NoInfo)
    ELSE
      Then(WriteAttr(w, MOTOR_OUTPUT_CLASS, axis, ATTR_OUT_VEL_LIMIT,
                     Abs(steps_per_sec) + VelHeadroom), LAMBDA w1 :
      Then(WriteAttr(w1, MOTOR_OUTPUT_CLASS, axis, ATTR_OUT_ACCEL, accel),
           LAMBDA w2 :
      Then(WriteAttr(w2, MOTOR_OUTPUT_CLASS, axis, ATTR_OUT_DECEL, accel),
           LAMBDA w3 :
      Then(WriteAttr(w3, MOTOR_OUTPUT_CLASS, axis, ATTR_OUT_JOG_VEL,
                     steps_per_sec), LAMBDA w4 :
      Returned(ReadAttr(w4, MOTOR_OUTPUT_CLASS, axis, ATTR_OUT_JOG_VEL),
               "set_velocity", axis, steps_per_sec,
               w1.ok /\ w2.ok /\ w3.ok /\ w4.ok,
               [wrote |-> <<w1.ok, w2.ok, w3.ok, w4.ok>>])))))

\* ClearLinkEIP.set_velocity
SetVelocity(w, axis, steps_per_sec, accel) ==
    IF axis < 1 \/ axis > w.num_axes
    THEN Returned(w, "set_velocity", axis, steps_per_sec, FALSE, NoInfo)
    ELSE
      Then(WriteAttr(w, MOTOR_OUTPUT_CLASS, axis, ATTR_OUT_VEL_LIMIT,
                     Abs(steps_per_sec) + VelHeadroom), LAMBDA w1 :
      Then(WriteAttr(w1, MOTOR_OUTPUT_CLASS, axis, ATTR_OUT_ACCEL, accel),
           LAMBDA w2 :
      Then(WriteAttr(w2, MOTOR_OUTPUT_CLASS, axis, ATTR_OUT_DECEL, accel),
           LAMBDA w3 :
      Then(WriteAttr(w3, MOTOR_OUTPUT_CLASS, axis, ATTR_OUT_JOG_VEL,
                     steps_per_sec), LAMBDA w4 :
      Returned(ReadAttr(w4, MOTOR_OUTPUT_CLASS, axis, ATTR_OUT_JOG_VEL),
               "set_velocity", axis, steps_per_sec, TRUE,
               [wrote |-> <<w1.ok, w2.ok, w3.ok, w4.ok>>])))))

\* the status register's LoadVelocityMoveAck bit
AckSet(status_reg) == BitAnd(status_reg, BIT_LOAD_VEL_MOVE_ACK) # 0

\* n more equal requests are recorded, each consuming one (steady) answer
IssueAgain(w, req, n) ==
    IF n = 0 THEN w
    ELSE IF Len(w.trace) > 0 /\ w.trace[Len(w.trace)].req = req
    THEN [w EXCEPT !.trace[Len(w.trace)].n = @ + n]
    ELSE [w EXCEPT !.trace = Append(@, [req |-> req, n |-> n])]

\* a polling loop on the status register, from iteration i: it ends at the
\* first read that shows the ack bit as wanted, or after limit reads.  Two
\* cases are summed up instead of run read by read: with the link down every
\* remaining read returns None without a request; with the script used up and
\* a steady answer that does not raise and does not end the loop, every
\* remaining read is that same read.
RECURSIVE PollAck(_, _, _, _, _)
PollAck(w, axis, i, limit, want) ==
    IF i >= limit THEN [w EXCEPT !.ok = FALSE, !.n = i]
    ELSE IF ~w.connected \/ ~w.driver
    THEN [w EXCEPT !.ok = FALSE, !.n = limit, !.some = FALSE, !.val = 0]
    ELSE Then(ReadAttr(w, MOTOR_INPUT_CLASS, axis, ATTR_IN_STATUS_REG),
              LAMBDA r :
                IF r.some /\ (AckSet(r.val) = want)
                THEN [r EXCEPT !.ok = TRUE, !.n = i + 1]
                ELSE IF w.script = <<>> /\ w.rtail.k # "exc"
                THEN [IssueAgain(r, Request("get", MOTOR_INPUT_CLASS, axis,
                                            ATTR_IN_STATUS_REG, <<>>),
                                 limit - i - 1)
                        EXCEPT !.ok = FALSE, !.n = limit]
                ELSE PollAck(r, axis, i + 1, limit, want))

\* trigger_move as it would be if it gave up when a pending ack did not clear
TriggerMoveGivesUp(w, axis) ==
    IF axis < 1 \/ axis > w.num_axes
    THEN Returned(w, "trigger_move", axis, 0, FALSE, NoInfo)
    ELSE
      Then(ReadAttr(w, MOTOR_INPUT_CLASS, axis, ATTR_IN_SHUTDOWN_REG),
           LAMBDA r1 :
      Then(ReadAttr(IF r1.some /\ r1.val # 0
                    THEN WriteOutputReg(
                           WriteOutputReg(
                             WriteOutputReg(r1, axis, BIT_CLEAR_ALERTS
                                                    + BIT_CLEAR_MOTOR_FAULT),
                             axis, 0),
                           axis, BIT_ENABLE)
                    ELSE r1,
                    MOTOR_INPUT_CLASS, axis, ATTR_IN_STATUS_REG), LAMBDA r2 :
      Then(IF r2.some /\ AckSet(r2.val)
           THEN PollAck(WriteOutputReg(r2, axis, BIT_ENABLE), axis, 0,
                        TriggerPolls, FALSE)
           ELSE [r2 EXCEPT !.ok = TRUE, !.n = 0], LAMBDA w2 :
      Then(IF w2.ok
           THEN WriteOutputReg(w2, axis, BIT_ENABLE + BIT_LOAD_VEL_MOVE)
           ELSE w2, LAMBDA w3 :
      Returned(w3, "trigger_move", axis, 0, w3.ok,
               [preflight |-> r1.some /\ r1.val # 0,
                pending |-> r2.some /\ AckSet(r2.val),
                ack_cleared |-> w2.ok, polls |-> w2.n])))))

\* trigger_move as it would be if it cleared faults after every shutdown
\* read that succeeded, whatever the register held
TriggerMoveAlwaysClears(w, axis) ==
    IF axis < 1 \/ axis > w.num_axes
    THEN Returned(w, "trigger_move", axis, 0, FALSE, NoInfo)
    ELSE
      Then(ReadAttr(w, MOTOR_INPUT_CLASS, axis, ATTR_IN_SHUTDOWN_REG),
           LAMBDA r1 :
      Then(ReadAttr(IF r1.some
                    THEN WriteOutputReg(
                           WriteOutputReg(
                             WriteOutputReg(r1, axis, BIT_CLEAR_ALERTS
                                                    + BIT_CLEAR_MOTOR_FAULT),
                             axis, 0),
                           axis, BIT_ENABLE)
                    ELSE r1,
                    MOTOR_INPUT_CLASS, axis, ATTR_IN_STATUS_REG), LAMBDA r2 :
      Then(IF r2.some /\ AckSet(r2.val)
           THEN PollAck(WriteOutputReg(r2, axis, BIT_ENABLE), axis, 0,
                        TriggerPolls, FALSE)
           ELSE [r2 EXCEPT !.ok = FALSE, !.n = 0], LAMBDA w2 :
      Then(WriteOutputReg(w2, axis, BIT_ENABLE + BIT_LOAD_VEL_MOVE),
           LAMBDA w3 :
      Returned(w3, "trigger_move", axis, 0, w3.ok,
               [preflight |-> r1.some,
                pending |-> r2.some /\ AckSet(r2.val),
                ack_cleared |-> w2.ok, polls |-> w2.n])))))

\* ClearLinkEIP.trigger_move
TriggerMove(w, axis) ==
    IF axis < 1 \/ axis > w.num_axes
    THEN Returned(w, "trigger_move", axis, 0, FALSE, NoInfo)
    ELSE
      Then(ReadAttr(w, MOTOR_INPUT_CLASS, axis, ATTR_IN_SHUTDOWN_REG),
           LAMBDA r1 :
      Then(ReadAttr(IF r1.some /\ r1.val # 0
                    THEN WriteOutputReg(
                           WriteOutputReg(
                             WriteOutputReg(r1, axis, BIT_CLEAR_ALERTS
                                                    + BIT_CLEAR_MOTOR_FAULT),
                             axis, 0),
                           axis, BIT_ENABLE)
                    ELSE r1,
                    MOTOR_INPUT_CLASS, axis, ATTR_IN_STATUS_REG), LAMBDA r2 :
      Then(IF r2.some /\ AckSet(r2.val)
           THEN PollAck(WriteOutputReg(r2, axis, BIT_ENABLE), axis, 0,
                        TriggerPolls, FALSE)
           ELSE [r2 EXCEPT !.ok = FALSE, !.n = 0], LAMBDA w2 :
      Then(WriteOutputReg(w2, axis, BIT_ENABLE + BIT_LOAD_VEL_MOVE),
           LAMBDA w3 :
      Returned(w3, "trigger_move", axis, 0, w3.ok,
               [preflight |-> r1.some /\ r1.val # 0,
                pending |-> r2.some /\ AckSet(r2.val),
                ack_cleared |-> w2.ok, polls |-> w2.n])))))

\* step 5 as it would be without the retry
ClearLoadOnce(w, axis, attempt) ==
    Then(ReadAttr(WriteOutputReg(w, axis, BIT_ENABLE),
                  MOTOR_OUTPUT_CLASS, axis, ATTR_OUT_OUTPUT_REG),
         LAMBDA r :
           [r EXCEPT !.rb = Append(@, [some |-> r.some, val |-> r.val]),
                     !.ok = r.some /\ BitAnd(r.val, BIT_LOAD_VEL_MOVE) = 0,
                     !.n = attempt + 1])

\* step 5 of stop_motor, from the given attempt: write Enable only, read the
\* output register back, stop at the first read-back with the Load bit clear
RECURSIVE ClearLoad(_, _, _)
ClearLoad(w, axis, attempt) ==
    IF attempt >= ClearAttempts THEN [w EXCEPT !.ok = FALSE, !.n = attempt]
    ELSE Then(ReadAttr(WriteOutputReg(w, axis, BIT_ENABLE),
                       MOTOR_OUTPUT_CLASS, axis, ATTR_OUT_OUTPUT_REG),
              LAMBDA r :
                IF r.some /\ BitAnd(r.val, BIT_LOAD_VEL_MOVE) = 0
                THEN [r EXCEPT !.rb = Append(@, [some |-> r.some,
                                                 val |-> r.val]),
                               !.ok = TRUE, !.n = attempt + 1]
                ELSE ClearLoad([r EXCEPT !.rb = Append(@, [some |-> r.some,
                                                           val |-> r.val])],
                               axis, attempt + 1))

\* stop_motor as it would be if it gave up when its first read of the
\* status register returned nothing
StopMotorAbortsUnread(w, axis) ==
    IF axis < 1 \/ axis > w.num_axes
    THEN Returned(w, "stop_motor", axis, 0, FALSE, NoInfo)
    ELSE
      Then(ReadAttr(w, MOTOR_INPUT_CLASS, axis, ATTR_IN_STATUS_REG),
           LAMBDA r1 :
      IF ~r1.some
      THEN Returned(r1, "stop_motor", axis, 0, FALSE,
                    [pending |-> FALSE, polls1 |-> 0,
                     ack_found |-> FALSE, polls4 |-> 0,
                     attempts |-> 0, readbacks |-> <<>>,
                     ack_cleared |-> FALSE, polls6 |-> 0])
      ELSE
      Then(IF r1.some /\ AckSet(r1.val)
           THEN PollAck(WriteOutputReg(r1, axis, BIT_ENABLE), axis, 0,
                        StopPolls, FALSE)
           ELSE [r1 EXCEPT !.ok = FALSE, !.n = 0], LAMBDA s1 :
      Then(PollAck(WriteOutputReg(
                     WriteAttr(s1, MOTOR_OUTPUT_CLASS, axis, ATTR_OUT_JOG_VEL,
                               0),
                     axis, BIT_ENABLE + BIT_LOAD_VEL_MOVE),
                   axis, 0, StopPolls, TRUE), LAMBDA s4 :
      Then(ClearLoad([s4 EXCEPT !.rb = <<>>], axis, 0), LAMBDA s5 :
      Then(PollAck(s5, axis, 0, StopPolls, FALSE), LAMBDA s6 :
      Returned(s6, "stop_motor", axis, 0, s5.ok,
               [pending |-> r1.some /\ AckSet(r1.val), polls1 |-> s1.n,
                ack_found |-> s4.ok, polls4 |-> s4.n,
                attempts |-> s5.n, readbacks |-> s5.rb,
                ack_cleared |-> s6.ok, polls6 |-> s6.n]))))))

\* stop_motor as it would be if it also required the ack of step 4
StopMotorNeedsAck(w, axis) ==
    IF axis < 1 \/ axis > w.num_axes
    THEN Returned(w, "stop_motor", axis, 0, FALSE, NoInfo)
    ELSE
      Then(ReadAttr(w, MOTOR_INPUT_CLASS, axis, ATTR_IN_STATUS_REG),
           LAMBDA r1 :
      Then(IF r1.some /\ AckSet(r1.val)
           THEN PollAck(WriteOutputReg(r1, axis, BIT_ENABLE), axis, 0,
                        StopPolls, FALSE)
           ELSE [r1 EXCEPT !.ok = FALSE, !.n = 0], LAMBDA s1 :
      Then(PollAck(WriteOutputReg(
                     WriteAttr(s1, MOTOR_OUTPUT_CLASS, axis, ATTR_OUT_JOG_VEL,
                               0),
                     axis, BIT_ENABLE + BIT_LOAD_VEL_MOVE),
                   axis, 0, StopPolls, TRUE), LAMBDA s4 :
      Then(ClearLoad([s4 EXCEPT !.rb = <<>>], axis, 0), LAMBDA s5 :
      Then(PollAck(s5, axis, 0, StopPolls, FALSE), LAMBDA s6 :
      Returned(s6, "stop_motor", axis, 0, s5.ok /\ s4.ok,
               [pending |-> r1.some /\ AckSet(r1.val), polls1 |-> s1.n,
                ack_found |-> s4.ok, polls4 |-> s4.n,
                attempts |-> s5.n, readbacks |-> s5.rb,
                ack_cleared |-> s6.ok, polls6 |-> s6.n]))))))

\* ClearLinkEIP.stop_motor
StopMotor(w, axis) ==
    IF axis < 1 \/ axis > w.num_axes
    THEN Returned(w, "stop_motor", axis, 0, FALSE, NoInfo)
    ELSE
      Then(ReadAttr(w, MOTOR_INPUT_CLASS, axis, ATTR_IN_STATUS_REG),
           LAMBDA r1 :
      Then(IF r1.some /\ AckSet(r1.val)
           THEN PollAck(WriteOutputReg(r1, axis, BIT_ENABLE), axis, 0,
                        StopPolls, FALSE)
           ELSE [r1 EXCEPT !.ok = FALSE, !.n = 0], LAMBDA s1 :
      Then(PollAck(WriteOutputReg(
                     WriteAttr(s1, MOTOR_OUTPUT_CLASS, axis, ATTR_OUT_JOG_VEL,
                               0),
                     axis, BIT_ENABLE + BIT_LOAD_VEL_MOVE),
                   axis, 0, StopPolls, TRUE), LAMBDA s4 :
      Then(ClearLoad([s4 EXCEPT !.rb = <<>>], axis, 0), LAMBDA s5 :
      Then(PollAck(s5, axis, 0, StopPolls, FALSE), LAMBDA s6 :
      Returned(s6, "stop_motor", axis, 0, s5.ok,
               [pending |-> r1.some /\ AckSet(r1.val), polls1 |-> s1.n,
                ack_found |-> s4.ok, polls4 |-> s4.n,
                attempts |-> s5.n, readbacks |-> s5.rb,
                ack_cleared |-> s6.ok, polls6 |-> s6.n]))))))

\* the loop of stop_all as it would be if it ended at the first failure
RECURSIVE StopAllFromStopsAtFailure(_, _, _)
StopAllFromStopsAtFailure(w, axis, success) ==
    IF axis > w.num_axes \/ ~success THEN [w EXCEPT !.ret = success]
    ELSE Then(StopMotor(w, axis),
              LAMBDA w1 :
                StopAllFromStopsAtFailure(w1, axis + 1, success /\ w1.ret))

\* ClearLinkEIP.stop_all, from axis on, success so far given
RECURSIVE StopAllFrom(_, _, _)
StopAllFrom(w, axis, success) ==
    IF axis > w.num_axes THEN [w EXCEPT !.ret = success]
    ELSE Then(StopMotor(w, axis),
              LAMBDA w1 : StopAllFrom(w1, axis + 1, success /\ w1.ret))

StopAll(w) == StopAllFrom(w, 1, TRUE)

(***************************************************************************)
(* Protocol Layer: status.                                                 *)
(***************************************************************************)
\* the float32 -9999.0 ("not available"), as the integer its bytes spell
TorqueNA == -971228160
\* the number of AxisStatus a fresh ClearLinkStatus holds
DefaultAxes == 4

\* AxisStatus()
AxisStatus0 ==
    [enabled |-> FALSE, fault |-> FALSE, moving |-> FALSE, homed |-> FALSE,
     position |-> 0, velocity |-> 0, torque |-> TorqueNA, shutdown |-> 0]

\* the fault classification as it would be with every bit blocking
BlockingFaultAny(shutdown_reg) == shutdown_reg # 0

\* the fault classification of get_axis_status: a shutdown register with a
\* bit outside non_blocking
BlockingFault(shutdown_reg) == AndNot(shutdown_reg, NON_BLOCKING) # 0

\* the fields get_axis_status takes from the status register
WithStatusReg(a, r) ==
    IF r.some
    THEN [a EXCEPT !.enabled = BitAnd(r.val, BIT_ENABLED) # 0,
                   !.moving = BitAnd(r.val, BIT_STEPS_ACTIVE) # 0,
                   !.homed = BitAnd(r.val, BIT_READY_TO_HOME) = 0]
    ELSE a

\* the fields get_axis_status takes from the shutdown register
WithShutdownReg(a, r) ==
    IF r.some
    THEN [a EXCEPT !.shutdown = r.val, !.fault = BlockingFault(r.val)]
    ELSE a

\* a value read, or the field's default when the read gave None
Or(r, default) == IF r.some THEN r.val ELSE default

\* get_axis_status as it would be if the first read that gave None ended it
GetAxisStatusAborts(w, axis) ==
    IF axis < 1 \/ axis > w.num_axes \/ ~w.connected
    THEN Returned(w, "get_axis_status", axis, 0, AxisStatus0, NoInfo)
    ELSE
      Then(ReadAttr(w, MOTOR_INPUT_CLASS, axis, ATTR_IN_STATUS_REG),
           LAMBDA r1 :
      IF ~r1.some
      THEN Returned(r1, "get_axis_status", axis, 0, AxisStatus0,
                    [read |-> <<FALSE, FALSE, FALSE, FALSE, FALSE>>])
      ELSE
      Then(ReadAttr(r1, MOTOR_INPUT_CLASS, axis, ATTR_IN_SHUTDOWN_REG),
           LAMBDA r2 :
      IF ~r2.some
      THEN Returned(r2, "get_axis_status", axis, 0,
                    WithStatusReg(AxisStatus0, r1),
                    [read |-> <<TRUE, FALSE, FALSE, FALSE, FALSE>>])
      ELSE
      Then(ReadAttr(r2, MOTOR_INPUT_CLASS, axis, ATTR_IN_CMD_POSITION),
           LAMBDA r3 :
      Then(ReadAttr(r3, MOTOR_INPUT_CLASS, axis, ATTR_IN_CMD_VELOCITY),
           LAMBDA r4 :
      Then(ReadAttrFloat(r4, MOTOR_INPUT_CLASS, axis, ATTR_IN_TORQUE),
           LAMBDA r5 :
      Returned(r5, "get_axis_status", axis, 0,
               [WithShutdownReg(WithStatusReg(AxisStatus0, r1), r2)
                  EXCEPT !.position = Or(r3, AxisStatus0.position),
                         !.velocity = Or(r4, AxisStatus0.velocity),
                         !.torque = Or(r5, AxisStatus0.torque)],
               [read |-> <<r1.some, r2.some, r3.some, r4.some,
                           r5.some>>]))))))

\* ClearLinkEIP.get_axis_status
GetAxisStatus(w, axis) ==
    IF axis < 1 \/ axis > w.num_axes \/ ~w.connected
    THEN Returned(w, "get_axis_status", axis, 0, AxisStatus0, NoInfo)
    ELSE
      Then(ReadAttr(w, MOTOR_INPUT_CLASS, axis, ATTR_IN_STATUS_REG),
           LAMBDA r1 :
      Then(ReadAttr(r1, MOTOR_INPUT_CLASS, axis, ATTR_IN_SHUTDOWN_REG),
           LAMBDA r2 :
      Then(ReadAttr(r2, MOTOR_INPUT_CLASS, axis, ATTR_IN_CMD_POSITION),
           LAMBDA r3 :
      Then(ReadAttr(r3, MOTOR_INPUT_CLASS, axis, ATTR_IN_CMD_VELOCITY),
           LAMBDA r4 :
      Then(ReadAttrFloat(r4, MOTOR_INPUT_CLASS, axis, ATTR_IN_TORQUE),
           LAMBDA r5 :
      Returned(r5, "get_axis_status", axis, 0,
               [WithShutdownReg(WithStatusReg(AxisStatus0, r1), r2)
                  EXCEPT !.position = Or(r3, AxisStatus0.position),
                         !.velocity = Or(r4, AxisStatus0.velocity),
                         !.torque = Or(r5, AxisStatus0.torque)],
               [read |-> <<r1.some, r2.some, r3.some, r4.some,
                           r5.some>>]))))))

\* the loop of get_all_status, from index i (0-based) on; status.axes[i] = ...
\* raises IndexError when i is outside the list
RECURSIVE AllStatusFrom(_, _, _)
AllStatusFrom(w, i, st) ==
    IF i >= w.num_axes THEN [w EXCEPT !.ret = st]
    ELSE Then(GetAxisStatus(w, i + 1),
              LAMBDA w1 :
                IF i + 1 > Len(st.axes)
                THEN [w1 EXCEPT !.ret = st, !.raised = TRUE]
                ELSE AllStatusFrom(w1, i + 1,
                                   [st EXCEPT !.axes[i + 1] = w1.ret]))

\* ClearLinkStatus(connected, connection_error) before the axes are read
Status0(w) ==
    [connected |-> w.connected, connection_error |-> w.connection_error,
     axes |-> [i \in 1..DefaultAxes |-> AxisStatus0]]

\* ClearLinkEIP.get_all_status
GetAllStatus(w) ==
    IF ~w.connected THEN [w EXCEPT !.ret = Status0(w)]
    ELSE AllStatusFrom(w, 0, Status0(w))

(***************************************************************************)
(* Control Layer (ClearLinkControl).  Its public methods run under the     *)
(* Control Layer's lock; they work on the same world record, which also    *)
(* carries last_velocities, commands_sent and errors.                      *)
(***************************************************************************)
\* initialize as it would be if a new connection started the counters afresh
InitializeResetsCounters(w, open) ==
    [Connect(w, open) EXCEPT !.commands_sent = 0, !.errors = 0]

\* ClearLinkControl.initialize
Initialize(w, open) == Connect(w, open)

\* shutdown as it would be if it closed the session before stopping
ShutdownClosesFirst(w) == StopAll(Disconnect(w))

\* ClearLinkControl.shutdown
Shutdown(w) == Disconnect(StopAll(w))

\* that loop as it would be if it ended at the first axis that failed
RECURSIVE EnableFromStopsAtFailure(_, _, _, _, _)
EnableFromStopsAtFailure(w, axes, enable, i, success) ==
    IF i > Len(axes) \/ ~success THEN [w EXCEPT !.ret = success]
    ELSE Then(SetMotorEnable(w, axes[i], enable),
              LAMBDA w1 :
                IF ~w1.ret
                THEN EnableFromStopsAtFailure([w1 EXCEPT !.errors = @ + 1],
                                              axes, enable, i + 1, FALSE)
                ELSE EnableFromStopsAtFailure(
                       [w1 EXCEPT !.commands_sent = @ + 1], axes, enable,
                       i + 1, success))

\* the loop of enable_motors (enable = TRUE) and disable_motors (FALSE), from
\* position i of the list on
RECURSIVE EnableFrom(_, _, _, _, _)
EnableFrom(w, axes, enable, i, success) ==
    IF i > Len(axes) THEN [w EXCEPT !.ret = success]
    ELSE Then(SetMotorEnable(w, axes[i], enable),
              LAMBDA w1 :
                IF ~w1.ret
                THEN EnableFrom([w1 EXCEPT !.errors = @ + 1], axes, enable,
                                i + 1, FALSE)
                ELSE EnableFrom([w1 EXCEPT !.commands_sent = @ + 1], axes,
                                enable, i + 1, success))

\* ClearLinkControl.enable_motors
EnableMotors(w, axes) == EnableFrom(w, axes, TRUE, 1, TRUE)

\* ClearLinkControl.disable_motors
DisableMotors(w, axes) == EnableFrom(w, axes, FALSE, 1, TRUE)

\* the deduplication test as it would be without "velocity != 0", and as it
\* would be if it never held
DeduplicatedAlsoZero(w, i, velocity) == velocity = w.last_velocities[i]

DeduplicatedNever(w, i, velocity) == FALSE

\* the deduplication test of drive_velocity: a nonzero velocity equal to the
\* cached one
Deduplicated(w, i, velocity) ==
    velocity # 0 /\ velocity = w.last_velocities[i]

\* the bookkeeping of drive_velocity after a stop or a trigger: on failure the
\* error counter, on success the cache and the command counter
Booked(w, i, velocity) ==
    IF ~w.ret THEN [w EXCEPT !.errors = @ + 1, !.ok = FALSE]
    ELSE [w EXCEPT !.last_velocities[i] = velocity,
                   !.commands_sent = @ + 1, !.ok = TRUE]

\* that bookkeeping as it would be if the cache were written before the
\* result is tested
BookedAnyway(w, i, velocity) ==
    IF ~w.ret
    THEN [w EXCEPT !.last_velocities[i] = velocity, !.errors = @ + 1,
                   !.ok = FALSE]
    ELSE [w EXCEPT !.last_velocities[i] = velocity,
                   !.commands_sent = @ + 1, !.ok = TRUE]

\* one axis of drive_velocity as it would be if the cache were written
\* before the result of the stop or of the trigger is tested
DriveAxisCachesAnyway(w, i, velocity, accel) ==
    IF velocity = 0 THEN BookedAnyway(StopMotor(w, i), i, 0)
    ELSE Then(SetVelocity(w, i, velocity, accel),
              LAMBDA w1 :
                IF ~w1.ret THEN [w1 EXCEPT !.errors = @ + 1, !.ok = FALSE]
                ELSE BookedAnyway(TriggerMove(w1, i), i, velocity))

\* one axis of drive_velocity that is not skipped: the stop or the move, the
\* counters and the cache; ok tells whether the axis succeeded
DriveAxis(w, i, velocity, accel) ==
    IF velocity = 0 THEN Booked(StopMotor(w, i), i, 0)
    ELSE Then(SetVelocity(w, i, velocity, accel),
              LAMBDA w1 :
                IF ~w1.ret THEN [w1 EXCEPT !.errors = @ + 1, !.ok = FALSE]
                ELSE Booked(TriggerMove(w1, i), i, velocity))

\* the loop of drive_velocity as it would be if it ended at the first failure
RECURSIVE DriveFromStopsAtFailure(_, _, _, _, _)
DriveFromStopsAtFailure(w, axis_velocities, accel, i, success) ==
    IF i > Len(axis_velocities) \/ i > w.num_axes \/ ~success
    THEN [w EXCEPT !.ret = success]
    ELSE IF Deduplicated(w, i, axis_velocities[i])
    THEN DriveFromStopsAtFailure(w, axis_velocities, accel, i + 1, success)
    ELSE Then(DriveAxis(w, i, axis_velocities[i], accel),
              LAMBDA w1 :
                DriveFromStopsAtFailure(w1, axis_velocities, accel, i + 1,
                                        success /\ w1.ok))

\* the loop of drive_velocity, from position i of the list on
RECURSIVE DriveFrom(_, _, _, _, _)
DriveFrom(w, axis_velocities, accel, i, success) ==
    IF i > Len(axis_velocities) \/ i > w.num_axes
    THEN [w EXCEPT !.ret = success]
    ELSE IF Deduplicated(w, i, axis_velocities[i])
    THEN DriveFrom(w, axis_velocities, accel, i + 1, success)
    ELSE Then(DriveAxis(w, i, axis_velocities[i], accel),
              LAMBDA w1 :
                DriveFrom(w1, axis_velocities, accel, i + 1,
                          success /\ w1.ok))

\* ClearLinkControl.drive_velocity
DriveVelocity(w, axis_velocities, accel) ==
    DriveFrom(w, axis_velocities, accel, 1, TRUE)

\* stop as it would be without the reset of the cache
StopKeepsCache(w) ==
    Then(StopAll(w),
         LAMBDA w1 :
           IF w1.ret THEN [w1 EXCEPT !.commands_sent = @ + 1]
           ELSE [w1 EXCEPT !.errors = @ + 1])

\* ClearLinkControl.stop (decel is not used)
Stop(w) ==
    Then(StopAll(w),
         LAMBDA w1 :
           IF w1.ret
           THEN [w1 EXCEPT !.last_velocities = [a \in 1..w.num_axes |-> 0],
                           !.commands_sent = @ + 1]
           ELSE [w1 EXCEPT !.errors = @ + 1])

\* the loop of ClearLinkControl.clear_faults, from position i of the list on;
\* failed is the list of the axes that failed so far
RECURSIVE ControlClearFrom(_, _, _, _)
ControlClearFrom(w, axes, i, failed) ==
    IF i > Len(axes) THEN [w EXCEPT !.ret = (failed = <<>>)]
    ELSE Then(ClearFaults(w, axes[i]),
              LAMBDA w1 :
                IF w1.ret
                THEN ControlClearFrom([w1 EXCEPT !.commands_sent = @ + 1],
                                      axes, i + 1, failed)
                ELSE ControlClearFrom([w1 EXCEPT !.errors = @ + 1], axes,
                                      i + 1, Append(failed, axes[i])))

\* ClearLinkControl.clear_faults (the flag of the returned pair)
ControlClearFaults(w, axes) == ControlClearFrom(w, axes, 1, <<>>)

\* home as it would be if it started a move of the first listed axis
HomeMoves(w, axes, velocity, accel) ==
    IF axes = <<>> THEN [w EXCEPT !.ret = TRUE]
    ELSE [TriggerMove(SetVelocity(w, axes[1], velocity, accel), axes[1])
            EXCEPT !.ret = TRUE]

\* ClearLinkControl.home
Home(w, axes, velocity, accel) == [w EXCEPT !.ret = TRUE]

\* ClearLinkControl.read_status
ReadStatus(w) == GetAllStatus(w)

\* ClearLinkDiagnostics as read_diagnostics fills it before the status is read
Diagnostics0(w) ==
    [connected |-> w.connected, connection_error |-> w.connection_error,
     total_commands_sent |-> w.commands_sent, total_errors |-> w.errors,
     axis_faults |-> <<>>]

\* ClearLinkControl.read_diagnostics, run without another thread in between;
\* status.axes[i] raises IndexError when i is outside the list
ReadDiagnostics(w) ==
    Then(ReadStatus(w),
         LAMBDA w1 :
           IF w1.raised THEN w1
           ELSE IF w.num_axes > Len(w1.ret.axes)
           THEN [w1 EXCEPT !.ret = Diagnostics0(w), !.raised = TRUE]
           ELSE [w1 EXCEPT !.ret =
                   [Diagnostics0(w) EXCEPT !.axis_faults =
                      [i \in 1..w.num_axes |-> w1.ret.axes[i].fault]]])

(***************************************************************************)
(* State.                                                                  *)
(***************************************************************************)
VARIABLES
    num_axes,                   \* the num_axes the two layers were built with
    connected,                  \* ClearLinkEIP._connected
    driver,                     \* ClearLinkEIP._driver is not None
    connection_error,           \* ClearLinkEIP._connection_error
    consecutive_read_failures,  \* ClearLinkEIP._consecutive_read_failures
    output_reg,                 \* ClearLinkEIP._output_reg, by axis
    motors_enabled,             \* ClearLinkEIP._motors_enabled, by axis
    last_velocities,            \* ClearLinkControl._last_velocities, by axis
    commands_sent,              \* ClearLinkControl._commands_sent
    errors,                     \* ClearLinkControl._errors
    last,                       \* the last public call: what it was given, the
                                \* state it started in, what it did and returned
    lock,                       \* ClearLinkControl._lock: the thread that owns
                                \* it, 0 when it is free
    pc,                         \* by thread: the statement of the public
                                \* Control Layer call it is in, or "idle"
    diag                        \* by thread: the local diag of read_diagnostics

vars == <<num_axes, connected, driver, connection_error,
          consecutive_read_failures, output_reg, motors_enabled,
          last_velocities, commands_sent, errors, last, lock, pc, diag>>

Threads == 1..NumThreads

\* the program's fields, as a record
Fields ==
    [connected |-> connected, driver |-> driver,
     connection_error |-> connection_error,
     consecutive_read_failures |-> consecutive_read_failures,
     output_reg |-> output_reg, motors_enabled |-> motors_enabled,
     last_velocities |-> last_velocities, commands_sent |-> commands_sent,
     errors |-> errors]

\* a call starts: the fields as they are, the transport answering as o says
World(o) ==
    [num_axes |-> num_axes, connected |-> connected, driver |-> driver,
     connection_error |-> connection_error,
     consecutive_read_failures |-> consecutive_read_failures,
     output_reg |-> output_reg, motors_enabled |-> motors_enabled,
     last_velocities |-> last_velocities, commands_sent |-> commands_sent,
     errors |-> errors,
     script |-> o.script, rtail |-> o.rtail, ftail |-> o.ftail,
     wtail |-> o.wtail,
     trace |-> <<>>, calls |-> <<>>, rb |-> <<>>,
     ok |-> FALSE, some |-> FALSE, val |-> 0, n |-> 0,
     ret |-> FALSE, raised |-> FALSE]

\* the fields after construction
Fields0 ==
    [connected |-> FALSE, driver |-> FALSE, connection_error |-> "",
     consecutive_read_failures |-> 0,
     output_reg |-> [a \in 1..num_axes |-> 0],
     motors_enabled |-> [a \in 1..num_axes |-> FALSE],
     last_velocities |-> [a \in 1..num_axes |-> 0],
     commands_sent |-> 0, errors |-> 0]

\* the oracle remembered for a call whose history does not keep it
NoOracle == [script |-> <<>>, rtail |-> Err, ftail |-> Err, wtail |-> Exc]

\* the methods that return a status instead of a flag
StatusOps ==
    {"get_axis_status", "get_all_status", "read_status", "read_diagnostics"}

\* what is remembered of a call, by the history kept (h): "op" keeps the
\* method's name, the flag it returned and whether the link was up before
\* the call, "full" the arguments, the fields
\* before the call, the calls made, the requests issued and the result,
\* "oracle" also the answers the transport held ready
History(w, op, args, o, h) ==
    IF h = "op"
    THEN [op |-> op, args |-> <<>>,
          ret |-> IF op \in StatusOps THEN FALSE ELSE w.ret,
          raised |-> FALSE, calls |-> <<>>, trace |-> <<>>,
          pre |-> [Fields0 EXCEPT !.connected = connected],
          oracle |-> NoOracle]
    ELSE [op |-> op, args |-> args, ret |-> w.ret, raised |-> w.raised,
          calls |-> w.calls, trace |-> w.trace, pre |-> Fields,
          oracle |-> IF h = "oracle" THEN o ELSE NoOracle]

\* ClearLinkDiagnostics()
ClearLinkDiagnostics0 ==
    [connected |-> FALSE, connection_error |-> "",
     axis_faults |-> [i \in 1..DefaultAxes |-> FALSE],
     total_commands_sent |-> 0, total_errors |-> 0]

\* a call ends: the fields are stored and the call is remembered
Store(w, op, args, o, h) ==
    /\ num_axes' = w.num_axes
    /\ connected' = w.connected
    /\ driver' = w.driver
    /\ connection_error' = w.connection_error
    /\ consecutive_read_failures' = w.consecutive_read_failures
    /\ output_reg' = w.output_reg
    /\ motors_enabled' = w.motors_enabled
    /\ last_velocities' = w.last_velocities
    /\ commands_sent' = w.commands_sent
    /\ errors' = w.errors
    /\ last' = History(w, op, args, o, h)

\* a call made with no other thread about
Commit(w, op, args, o, h) ==
    /\ Store(w, op, args, o, h)
    /\ UNCHANGED <<lock, pc, diag>>

\* ClearLinkEIP.__init__ and ClearLinkControl.__init__, given num_axes = n
InitOf(n) ==
    /\ num_axes = n
    /\ connected = FALSE
    /\ driver = FALSE
    /\ connection_error = ""
    /\ consecutive_read_failures = 0
    /\ output_reg = [a \in 1..n |-> 0]
    /\ motors_enabled = [a \in 1..n |-> FALSE]
    /\ last_velocities = [a \in 1..n |-> 0]
    /\ commands_sent = 0
    /\ errors = 0
    /\ last = [op |-> "init", args |-> <<>>, ret |-> FALSE, raised |-> FALSE,
               calls |-> <<>>, trace |-> <<>>, pre |-> Fields0,
               oracle |-> NoOracle]
    /\ lock = 0
    /\ pc = [t \in Threads |-> "idle"]
    /\ diag = [t \in Threads |-> ClearLinkDiagnostics0]

\* the controller built with NumAxes axes
Init == InitOf(NumAxes)

\* the axis counts a controller is built with: up to one more than a
\* ClearLinkStatus has slots
MaxAxes == 5
AxisCounts == 1..MaxAxes

\* the controller built with any of these axis counts
InitConfigured == \E n \in AxisCounts : InitOf(n)

(***************************************************************************)
(* The Protocol Layer's public methods as actions.  O is the set the       *)
(* transport's answers are drawn from, h the history kept, A the axis      *)
(* arguments tried.                                                        *)
(***************************************************************************)
\* velocity arguments (steps/s) and the acceleration argument
Vels == {-300, 0, 500}
Accels == {20000}
\* the configured axes and the first index past them
AxisArgs == 1..(NumAxes + 1)

EipConnect(O, h) ==
    \E o \in O, open \in OpenOutcomes :
        Commit(Connect(World(o), open), "connect", <<open>>, o, h)

EipDisconnect(O, h) ==
    \E o \in O :
        Commit(Disconnect(World(o)), "disconnect", <<>>, o, h)

EipReconnect(O, h) ==
    \E o \in O, open \in OpenOutcomes :
        Commit(Reconnect(World(o), open), "reconnect", <<open>>, o, h)

EipClearFaults(O, h, A) ==
    \E o \in O, axis \in A :
        Commit(ClearFaults(World(o), axis), "clear_faults", <<axis>>, o, h)

EipSetMotorEnable(O, h, A) ==
    \E o \in O, axis \in A, enable \in BOOLEAN :
        Commit(SetMotorEnable(World(o), axis, enable), "set_motor_enable",
               <<axis, enable>>, o, h)

EipSetVelocity(O, h, A) ==
    \E o \in O, axis \in A, v \in Vels, accel \in Accels :
        Commit(SetVelocity(World(o), axis, v, accel), "set_velocity",
               <<axis, v, accel>>, o, h)

EipTriggerMove(O, h, A) ==
    \E o \in O, axis \in A :
        Commit(TriggerMove(World(o), axis), "trigger_move", <<axis>>, o, h)

EipStopMotor(O, h, A) ==
    \E o \in O, axis \in A :
        Commit(StopMotor(World(o), axis), "stop_motor", <<axis>>, o, h)

EipStopAll(O, h) ==
    \E o \in O : Commit(StopAll(World(o)), "stop_all", <<>>, o, h)

EipGetAxisStatus(O, h, A) ==
    \E o \in O, axis \in A :
        Commit(GetAxisStatus(World(o), axis), "get_axis_status", <<axis>>,
               o, h)

EipGetAllStatus(O, h) ==
    \E o \in O :
        Commit(GetAllStatus(World(o)), "get_all_status", <<>>, o, h)

\* the values written: around 0, around the ends of the signed and of the
\* unsigned 32-bit range
WideVals ==
    {[hi |-> h, lo |-> l] :
        h \in {-(Half \div 2) - 1, -(Half \div 2), -1, 0, 1, Half \div 2 - 1,
               Half \div 2, Half - 1, Half},
        l \in {0, 1, Half - 1}}

\* the attributes written and read back
TripAttrs == {ATTR_OUT_JOG_VEL, ATTR_OUT_ACCEL}

\* one call of _write_attr, _read_attr or _read_attr_float on its own; it
\* returns whether the call succeeded (True, or a value other than None)
EipAccess(O, h, A) ==
    \E o \in O, axis \in A :
        LET wrote == WriteAttr(World(o), MOTOR_OUTPUT_CLASS, axis,
                               ATTR_OUT_JOG_VEL, 0)
            read == ReadAttr(World(o), MOTOR_INPUT_CLASS, axis,
                             ATTR_IN_STATUS_REG)
            readf == ReadAttrFloat(World(o), MOTOR_INPUT_CLASS, axis,
                                   ATTR_IN_TORQUE)
        IN \/ Commit([wrote EXCEPT !.ret = wrote.ok], "_write_attr",
                     <<axis>>, o, h)
           \/ Commit([read EXCEPT !.ret = read.some], "_read_attr",
                     <<axis>>, o, h)
           \/ Commit([readf EXCEPT !.ret = readf.some], "_read_attr_float",
                     <<axis>>, o, h)

EipRoundTrip(O, h, A) ==
    \E o \in O, axis \in A, attr \in TripAttrs, v \in WideVals :
        Commit(RoundTrip(World(o), MOTOR_OUTPUT_CLASS, axis, attr, v),
               "round_trip", <<axis, attr, v>>, o, h)

(***************************************************************************)
(* The Control Layer's public methods as actions.  A counting method is    *)
(* taken only while the two counters together are below MaxCount.          *)
(***************************************************************************)
RECURSIVE Ascending(_)
Ascending(S) ==
    IF S = {} THEN <<>>
    ELSE LET m == CHOOSE x \in S : \A y \in S : x <= y
         IN <<m>> \o Ascending(S \ {m})

\* the axis lists tried: every subset of A, ascending
AxisLists(A) == {Ascending(S) : S \in SUBSET A}

\* the velocity lists tried: one velocity per axis, a list of one velocity,
\* and one list longer than the axis count
VelLists ==
    [1..NumAxes -> Vels] \cup {<<v>> : v \in Vels}
      \cup {[i \in 1..(NumAxes + 1) |-> 500]}

Room == commands_sent + errors < MaxCount

CtlInitialize(O, h) ==
    \E o \in O, open \in OpenOutcomes :
        Commit(Initialize(World(o), open), "initialize", <<open>>, o, h)

CtlShutdown(O, h) ==
    \E o \in O : Commit(Shutdown(World(o)), "shutdown", <<>>, o, h)

CtlEnableMotors(O, h, A) ==
    \E o \in O, axes \in AxisLists(A) :
        /\ Room
        /\ Commit(EnableMotors(World(o), axes), "enable_motors", <<axes>>, o, h)

CtlDisableMotors(O, h, A) ==
    \E o \in O, axes \in AxisLists(A) :
        /\ Room
        /\ Commit(DisableMotors(World(o), axes), "disable_motors", <<axes>>,
                  o, h)

CtlDriveVelocity(O, h) ==
    \E o \in O, vs \in VelLists, accel \in Accels :
        /\ Room
        /\ Commit(DriveVelocity(World(o), vs, accel), "drive_velocity",
                  <<vs, accel>>, o, h)

CtlStop(O, h) ==
    \E o \in O :
        /\ Room
        /\ Commit(Stop(World(o)), "stop", <<>>, o, h)

CtlClearFaults(O, h, A) ==
    \E o \in O, axes \in AxisLists(A) :
        /\ Room
        /\ Commit(ControlClearFaults(World(o), axes), "clear_faults",
                  <<axes>>, o, h)

CtlHome(O, h, A) ==
    \E o \in O, axes \in AxisLists(A), v \in Vels, accel \in Accels :
        Commit(Home(World(o), axes, v, accel), "home", <<axes, v, accel>>,
               o, h)

CtlReadStatus(O, h) ==
    \E o \in O : Commit(ReadStatus(World(o)), "read_status", <<>>, o, h)

CtlReadDiagnostics(O, h) ==
    \E o \in O :
        Commit(ReadDiagnostics(World(o)), "read_diagnostics", <<>>, o, h)

(***************************************************************************)
(* The consumer of the Control Layer (ClearLinkNode, clearlink_node.py):   *)
(* its constructor's connection attempt and its periodic loop.             *)
(***************************************************************************)
\* list(range(1, self._num_axes + 1))
AllAxes(w) == [i \in 1..w.num_axes |-> i]

\* self._control.reconnect(): ClearLinkControl defines no reconnect (and no
\* __getattr__), so the attribute lookup raises AttributeError before any
\* Protocol Layer code runs
ControlReconnect(w, open) ==
    [Returned(w, "control.reconnect", 0, open, FALSE, NoInfo)
       EXCEPT !.raised = TRUE]

\* ClearLinkNode._auto_enable_motors
AutoEnableMotors(w) ==
    IF ~w.connected THEN w
    ELSE Then(ControlClearFaults(w, AllAxes(w)), LAMBDA w1 :
         Then(EnableMotors(w1, AllAxes(w)), LAMBDA w2 :
              IF w2.ret THEN w2 ELSE ReadStatus(w2)))

\* the connection attempt of ClearLinkNode.__init__
NodeStart(w, open) ==
    Then(Initialize(w, open),
         LAMBDA w1 :
           [(IF w1.ret THEN AutoEnableMotors(w1) ELSE w1) EXCEPT !.ret = FALSE])

\* ClearLinkNode._main_loop; due tells whether the reconnect interval has
\* passed since the last attempt
MainLoop(w, due, open) ==
    IF ~w.connected
    THEN IF ~due THEN [w EXCEPT !.ret = FALSE]
         ELSE Then(ControlReconnect(w, open),
                   LAMBDA w1 :
                     IF w1.raised THEN w1
                     ELSE [(IF w1.ret THEN AutoEnableMotors(w1) ELSE w1)
                             EXCEPT !.ret = FALSE])
    ELSE Then(ReadStatus(w),
              LAMBDA w1 : IF w1.raised THEN w1 ELSE [w1 EXCEPT !.ret = FALSE])

NodeInit(O, h) ==
    \E o \in O, open \in OpenOutcomes :
        /\ Room
        /\ Commit(NodeStart(World(o), open), "node_init", <<open>>, o, h)

NodeMainLoop(O, h) ==
    \E o \in O, due \in BOOLEAN, open \in OpenOutcomes :
        Commit(MainLoop(World(o), due, open), "main_loop", <<due, open>>,
               o, h)

(***************************************************************************)
(* The Control Layer called by several threads.  A method whose body is    *)
(* one "with self._lock" block is two steps of its thread: taking the lock *)
(* when it is free, then the body and the release.  read_diagnostics is    *)
(* one step per statement: four assignments to diag made without the lock, *)
(* then read_status, which takes the lock, and the list of the faults.     *)
(***************************************************************************)
LockedMethods == {"initialize", "drive_velocity"}

\* the transport answering every write, and every read with 0 or by raising
Calm == {o \in Steady : o.wtail = Val(0) /\ o.rtail \in {Val(0), Exc}}

\* the velocity lists the threads drive with
ThreadVelLists == [1..NumAxes -> {0, 500}]

ProgramVars == <<num_axes, connected, driver, connection_error,
             consecutive_read_failures, output_reg, motors_enabled,
             last_velocities, commands_sent, errors, last>>

\* "with self._lock:" of method m entered by thread t
Enter(t, m) ==
    /\ pc[t] = "idle"
    /\ m = "initialize" \/ Room
    /\ lock = 0
    /\ lock' = t
    /\ pc' = [pc EXCEPT ![t] = m]
    /\ UNCHANGED <<ProgramVars, diag>>

\* the end of the with block: the lock is released and the method returns
Leave(t) ==
    /\ lock' = 0
    /\ pc' = [pc EXCEPT ![t] = "idle"]

\* ClearLinkControl.initialize, the body
RunInitialize(t, O) ==
    /\ pc[t] = "initialize"
    /\ lock = t
    /\ \E o \in O, open \in OpenOutcomes :
          Store(Initialize(World(o), open), "initialize", <<open>>, o, "op")
    /\ Leave(t)
    /\ UNCHANGED diag

\* ClearLinkControl.drive_velocity, the body
RunDriveVelocity(t, O) ==
    /\ pc[t] = "drive_velocity"
    /\ lock = t
    /\ \E o \in O, vs \in ThreadVelLists, accel \in Accels :
          Store(DriveVelocity(World(o), vs, accel), "drive_velocity",
                <<vs, accel>>, o, "op")
    /\ Leave(t)
    /\ UNCHANGED diag

\* read_diagnostics: diag = ClearLinkDiagnostics(); diag.connected = ...
DiagConnected(t) ==
    /\ pc[t] = "idle"
    /\ diag' = [diag EXCEPT ![t] =
                   [ClearLinkDiagnostics0 EXCEPT !.connected = connected]]
    /\ pc' = [pc EXCEPT ![t] = "diag.connection_error"]
    /\ UNCHANGED <<ProgramVars, lock>>

\* read_diagnostics: diag.connection_error = self._eip.connection_error
DiagConnectionError(t) ==
    /\ pc[t] = "diag.connection_error"
    /\ diag' = [diag EXCEPT ![t].connection_error = connection_error]
    /\ pc' = [pc EXCEPT ![t] = "diag.total_commands_sent"]
    /\ UNCHANGED <<ProgramVars, lock>>

\* read_diagnostics: diag.total_commands_sent = self._commands_sent
DiagCommandsSent(t) ==
    /\ pc[t] = "diag.total_commands_sent"
    /\ diag' = [diag EXCEPT ![t].total_commands_sent = commands_sent]
    /\ pc' = [pc EXCEPT ![t] = "diag.total_errors"]
    /\ UNCHANGED <<ProgramVars, lock>>

\* read_diagnostics: diag.total_errors = self._errors
DiagErrors(t) ==
    /\ pc[t] = "diag.total_errors"
    /\ diag' = [diag EXCEPT ![t].total_errors = errors]
    /\ pc' = [pc EXCEPT ![t] = "read_status"]
    /\ UNCHANGED <<ProgramVars, lock>>

\* read_diagnostics: status = self.read_status(), "with self._lock:" entered
DiagEnter(t) ==
    /\ pc[t] = "read_status"
    /\ lock = 0
    /\ lock' = t
    /\ pc' = [pc EXCEPT ![t] = "get_all_status"]
    /\ UNCHANGED <<ProgramVars, diag>>

\* the faults read_diagnostics lists from the status st
AxisFaults(st) == [i \in 1..num_axes |-> st.axes[i].fault]

\* read_diagnostics: the body of read_status, then diag.axis_faults = ... and
\* the return, with which the local diag is gone
DiagStatus(t, O) ==
    /\ pc[t] = "get_all_status"
    /\ lock = t
    /\ \E o \in O :
          Then(ReadStatus(World(o)),
               LAMBDA w : Store([w EXCEPT !.ret =
                                   [diag[t] EXCEPT !.axis_faults =
                                      AxisFaults(w.ret)]],
                                "read_diagnostics", <<>>, o, "op"))
    /\ Leave(t)
    /\ diag' = [diag EXCEPT ![t] = ClearLinkDiagnostics0]

(***************************************************************************)
(* Specifications.                                                         *)
(***************************************************************************)
\* threads calling the Control Layer
NextThreads ==
    \E t \in Threads :
        \/ \E m \in LockedMethods : Enter(t, m)
        \/ RunInitialize(t, Calm)
        \/ RunDriveVelocity(t, Calm)
        \/ DiagConnected(t)
        \/ DiagConnectionError(t)
        \/ DiagCommandsSent(t)
        \/ DiagErrors(t)
        \/ DiagEnter(t)
        \/ DiagStatus(t, Calm)

SpecThreads == Init /\ [][NextThreads]_vars

\* the Control Layer driving the axes
Next ==
    \/ CtlInitialize(Steady, "full")
    \/ CtlDriveVelocity(Steady, "full")
    \/ CtlStop(Steady, "full")

Spec == Init /\ [][Next]_vars

\* the Protocol Layer's whole interface, the method's name and flag remembered
NextLink ==
    \/ EipConnect(Steady, "op")
    \/ EipDisconnect(Steady, "op")
    \/ EipReconnect(Steady, "op")
    \/ EipClearFaults(Steady, "op", AxisArgs)
    \/ EipSetMotorEnable(Steady, "op", AxisArgs)
    \/ EipSetVelocity(Steady, "op", AxisArgs)
    \/ EipTriggerMove(Steady, "op", AxisArgs)
    \/ EipStopMotor(Steady, "op", AxisArgs)
    \/ EipStopAll(Steady, "op")
    \/ EipGetAxisStatus(SteadyTorque, "op", AxisArgs)
    \/ EipGetAllStatus(SteadyTorque, "op")

SpecLink == Init /\ [][NextLink]_vars

\* connecting and the methods that read, the transport's answers remembered
NextLoss ==
    \/ EipConnect(Steady, "oracle")
    \/ EipClearFaults(Steady, "oracle", AxisArgs)
    \/ EipSetVelocity(Steady, "oracle", AxisArgs)
    \/ EipGetAxisStatus(SteadyTorque, "oracle", AxisArgs)

SpecLoss == Init /\ [][NextLoss]_vars

\* enabling, with what clears the shadow and what loses the link
NextEnable ==
    \/ EipConnect(Steady, "full")
    \/ EipSetMotorEnable(Steady, "full", AxisArgs)
    \/ EipClearFaults(Steady, "full", AxisArgs)
    \/ EipGetAxisStatus(Steady, "full", AxisArgs)

SpecEnable == Init /\ [][NextEnable]_vars

\* the methods that take an axis, given the indices next to the configured
\* range, and the two that start a move given the first axis as well
OffAxes == {0, NumAxes + 1}
EdgeAxes == OffAxes \cup {1}

NextAxis ==
    \/ EipConnect(Steady, "oracle")
    \/ EipClearFaults(Steady, "oracle", OffAxes)
    \/ EipSetMotorEnable(Steady, "oracle", OffAxes)
    \/ EipSetVelocity(Steady, "oracle", EdgeAxes)
    \/ EipTriggerMove(Steady, "oracle", EdgeAxes)
    \/ EipStopMotor(Steady, "oracle", OffAxes)
    \/ EipGetAxisStatus(Steady, "oracle", OffAxes)

SpecAxis == Init /\ [][NextAxis]_vars

\* reading the status, the transport's answers remembered
NextStatus ==
    \/ EipConnect(Steady, "oracle")
    \/ EipDisconnect(Steady, "oracle")
    \/ EipGetAxisStatus(SteadyTorque \cup MaskReads, "oracle", AxisArgs)
    \/ EipGetAllStatus(SteadyTorque \cup MaskReads, "oracle")

SpecStatus == Init /\ [][NextStatus]_vars

\* the consumer: its start, its periodic loop, and status reads by which the
\* link is lost
NextNode ==
    \/ NodeInit(Steady, "full")
    \/ NodeMainLoop(Steady, "full")
    \/ EipGetAxisStatus(Steady, "full", AxisArgs)

SpecNode == Init /\ [][NextNode]_vars

\* the Control Layer's methods that take a list of axes, given lists over
\* the configured axes and the index below them
ListAxes == 0..NumAxes

NextMotors ==
    \/ CtlInitialize(Steady, "full")
    \/ CtlEnableMotors(Steady, "full", ListAxes)
    \/ CtlDisableMotors(Steady, "full", ListAxes)
    \/ CtlClearFaults(Steady, "full", ListAxes)

SpecMotors == Init /\ [][NextMotors]_vars

\* the Control Layer's whole interface, the method's name and flag remembered
NextControl ==
    \/ CtlInitialize(Calm, "op")
    \/ CtlShutdown(Calm, "op")
    \/ CtlEnableMotors(Calm, "op", EdgeAxes)
    \/ CtlDisableMotors(Calm, "op", EdgeAxes)
    \/ CtlDriveVelocity(Calm, "op")
    \/ CtlStop(Calm, "op")
    \/ CtlClearFaults(Calm, "op", EdgeAxes)
    \/ CtlHome(Calm, "op", EdgeAxes)
    \/ CtlReadStatus(Calm, "op")
    \/ CtlReadDiagnostics(Calm, "op")

SpecControl == Init /\ [][NextControl]_vars

\* bringing the link up, enabling the first axis and shutting down
NextShutdown ==
    \/ CtlInitialize(Steady, "full")
    \/ CtlEnableMotors(Calm, "full", {1})
    \/ CtlShutdown(Steady, "full")

SpecShutdown == Init /\ [][NextShutdown]_vars

\* reading the status of the first axis, each read answered on its own
NextFields ==
    \/ EipConnect(Steady, "oracle")
    \/ EipGetAxisStatus(PerRead, "oracle", {1})

SpecFields == Init /\ [][NextFields]_vars

\* controllers of every axis count: bringing the link up and down and
\* reading the status and the diagnostics
NextConfig ==
    \/ EipConnect(Steady, "full")
    \/ EipDisconnect(Steady, "full")
    \/ EipGetAllStatus(SteadyTorque, "full")
    \/ CtlReadStatus(SteadyTorque, "full")
    \/ CtlReadDiagnostics(SteadyTorque, "full")

SpecConfig == InitConfigured /\ [][NextConfig]_vars

\* writing an attribute of a configured axis and reading it back
NextRoundTrip ==
    \/ EipConnect(Calm, "full")
    \/ EipDisconnect(Calm, "full")
    \/ EipRoundTrip(Calm, "full", Axes)

SpecRoundTrip == Init /\ [][NextRoundTrip]_vars

\* homing, among the calls that change the cache, the counters, the shadow
\* and the enabled flags
NextHome ==
    \/ CtlInitialize(Calm, "full")
    \/ CtlEnableMotors(Calm, "full", EdgeAxes)
    \/ CtlDriveVelocity(Calm, "full")
    \/ CtlHome(Calm, "full", EdgeAxes)

SpecHome == Init /\ [][NextHome]_vars

\* starting a move, the transport answering the first request on its own
NextTrigger ==
    \/ EipConnect(Calm, "oracle")
    \/ EipDisconnect(Calm, "oracle")
    \/ EipTriggerMove(Scripted, "oracle", EdgeAxes)

SpecTrigger == Init /\ [][NextTrigger]_vars

\* the methods that write the output register, one write of a call answered
\* on its own
NextShadow ==
    \/ EipConnect(Calm, "oracle")
    \/ EipDisconnect(Calm, "oracle")
    \/ EipClearFaults(Flaky, "oracle", EdgeAxes)
    \/ EipSetMotorEnable(Flaky, "oracle", EdgeAxes)
    \/ EipTriggerMove(Flaky, "oracle", EdgeAxes)
    \/ EipStopMotor(Flaky, "oracle", EdgeAxes)

SpecShadow == Init /\ [][NextShadow]_vars

\* single attribute reads and writes, with what sets the shadow and what
\* opens and closes the link
NextAccess ==
    \/ EipConnect(Calm, "oracle")
    \/ EipDisconnect(Calm, "oracle")
    \/ EipSetMotorEnable(Calm, "oracle", {1})
    \/ EipAccess(Steady, "oracle", {1})

SpecAccess == Init /\ [][NextAccess]_vars

\* stopping
NextStop ==
    \/ EipConnect(Steady, "full")
    \/ EipDisconnect(Steady, "full")
    \/ EipStopMotor(Scripted \cup {AckAfterTwo}, "full", AxisArgs)
    \/ EipStopAll(Steady, "full")

SpecStop == Init /\ [][NextStop]_vars

(***************************************************************************)
(* drive_velocity (checked under Spec).                                    *)
(***************************************************************************)
\* the last call was drive_velocity; the list it was given
Drove == last.op = "drive_velocity"
Requested == last.args[1]

\* the axes the list covers
Covered == {i \in Axes : i <= Len(Requested)}

\* the Protocol Layer calls the last call made for axis i, and those of them
\* that were calls of op
CallsFor(i) == {k \in 1..Len(last.calls) : last.calls[k].axis = i}
CallsOf(op, i) == {k \in CallsFor(i) : last.calls[k].op = op}

\* the requests the last call sent to the device for axis i
RequestsFor(i) == {k \in 1..Len(last.trace) : last.trace[k].req.inst = i}

\* axis i was requested the nonzero velocity the cache held
Unchanged(i) ==
    Requested[i] # 0 /\ Requested[i] = last.pre.last_velocities[i]

\* a Protocol Layer call for axis i returned failure
Failed(i) == \E k \in CallsFor(i) : ~last.calls[k].ret

\* C1: an axis whose requested velocity is nonzero and equals the cached one
\* is skipped: drive_velocity makes no Protocol Layer call and sends no
\* request for it and leaves its cache entry alone, and the two counters
\* together grow by exactly the number of covered axes that are not skipped
DriveSkipsUnchanged ==
    Drove =>
        /\ \A i \in Covered :
              Unchanged(i) =>
                  /\ CallsFor(i) = {}
                  /\ RequestsFor(i) = {}
                  /\ last_velocities[i] = last.pre.last_velocities[i]
        /\ (commands_sent + errors)
             - (last.pre.commands_sent + last.pre.errors)
           = Cardinality({i \in Covered : ~Unchanged(i)})

\* a connected drive_velocity that skipped one axis and moved another
DriveSkipsUnchangedSeen ==
    /\ Drove
    /\ last.pre.connected
    /\ \E i, j \in Covered :
          /\ Unchanged(i)
          /\ ~Unchanged(j)
          /\ CallsOf("trigger_move", j) # {}
          /\ last_velocities[j] = Requested[j]
          /\ last_velocities[j] # last.pre.last_velocities[j]

\* C2: every covered axis requested 0 gets a stop_motor call, whatever the
\* cache holds
DriveZeroAlwaysStops ==
    Drove =>
        \A i \in Covered : Requested[i] = 0 => CallsOf("stop_motor", i) # {}

\* 0 requested for an axis whose cache is 0 after commands that all
\* succeeded, the last write to its output register being the Enable-only
\* write a stop ends with; the stop sequence ran again on the device
DriveZeroAlwaysStopsSeen ==
    /\ Drove
    /\ last.pre.connected
    /\ \E i \in Covered :
          /\ Requested[i] = 0
          /\ last.pre.last_velocities[i] = 0
          /\ last.pre.output_reg[i] = BIT_ENABLE
          /\ last.pre.commands_sent >= 1
          /\ last.pre.errors = 0
          /\ \E k \in CallsOf("stop_motor", i) : last.calls[k].ret
          /\ RequestsFor(i) # {}

\* C3: the cache entry of an axis becomes a nonzero v only in a call whose
\* set_velocity(i, v) and trigger_move(i) both returned success, becomes 0
\* only in a call whose stop_motor(i) returned success, and stays as it was
\* when a call for the axis returned failure
DriveCachesOnSuccess ==
    Drove =>
        \A i \in Axes :
            LET old == last.pre.last_velocities[i]
                new == last_velocities[i]
            IN /\ (new # old /\ new # 0) =>
                     /\ i \in Covered
                     /\ Requested[i] = new
                     /\ \E k \in CallsOf("set_velocity", i) :
                           last.calls[k].arg = new /\ last.calls[k].ret
                     /\ \E k \in CallsOf("trigger_move", i) : last.calls[k].ret
               /\ (new # old /\ new = 0) =>
                     /\ i \in Covered
                     /\ Requested[i] = 0
                     /\ \E k \in CallsOf("stop_motor", i) : last.calls[k].ret
               /\ Failed(i) => new = old

\* one call that cached a new nonzero velocity for one axis and failed on
\* another axis, whose requested velocity differed from the cached one
DriveCachesOnSuccessSeen ==
    /\ Drove
    /\ \E i, j \in Covered :
          /\ last_velocities[i] # last.pre.last_velocities[i]
          /\ last_velocities[i] # 0
          /\ Failed(j)
          /\ Requested[j] # last.pre.last_velocities[j]

\* C4: every covered axis is processed (skipped as unchanged, or handed to
\* the Protocol Layer) whatever happened to the axes before it, the error
\* counter grows by the number of axes that failed, and the result is true
\* exactly when no axis failed
DriveContinuesOnError ==
    Drove =>
        /\ \A i \in Covered : Unchanged(i) \/ CallsFor(i) # {}
        /\ errors - last.pre.errors
             = Cardinality({i \in Covered : Failed(i)})
        /\ last.ret = (\A i \in Covered : ~Failed(i))

\* the first axis failed and a later axis was still driven, with success
DriveContinuesOnErrorSeen ==
    /\ Drove
    /\ ~last.ret
    /\ \E i, j \in Covered :
          /\ i < j
          /\ Failed(i)
          /\ ~Failed(j)
          /\ CallsFor(j) # {}
          /\ commands_sent = last.pre.commands_sent + 1

(***************************************************************************)
(* Loss of the link (checked under SpecLoss and SpecLink).                 *)
(***************************************************************************)
\* the last call was a method that reads or writes attributes
Accessed == last.op \notin {"init", "connect", "disconnect", "reconnect"}

\* the answer the transport gave to a request of the last call, its answers
\* being steady
AnswerTo(req) ==
    CASE req.svc = "set" -> last.oracle.wtail
      [] req.svc = "get" /\ req.cls = MOTOR_INPUT_CLASS
           /\ req.attr = ATTR_IN_TORQUE -> last.oracle.ftail
      [] OTHER -> last.oracle.rtail

\* the reads the last call sent
Gets == {k \in 1..Len(last.trace) : last.trace[k].req.svc = "get"}

\* the number of reads that raised with no read succeeding since, counted
\* over the failures before the call and the first k entries of its trace
RECURSIVE FailuresAfter(_)
FailuresAfter(k) ==
    IF k = 0 THEN last.pre.consecutive_read_failures
    ELSE LET e == last.trace[k]
             a == AnswerTo(e.req)
             c == FailuresAfter(k - 1)
         IN IF e.req.svc # "get" THEN c
            ELSE CASE a.k = "exc" -> c + e.n
                   [] a.k = "val" -> 0
                   [] OTHER -> c

\* C5: a call that starts connected ends with the counter at the number of
\* consecutive reads that raised (integer or float, none succeeding in
\* between); when that number is 3, connected is false and connection_error
\* is not empty, and when it is less, connected is still true
ReadFailuresDisconnect ==
    (Accessed /\ last.pre.connected) =>
        LET f == FailuresAfter(Len(last.trace))
        IN /\ consecutive_read_failures = f
           /\ f >= 3 => ~connected /\ connection_error # ""
           /\ f < 3 => connected

\* the third consecutive failure, a read of the torque that raised, took the
\* link down
ReadFailuresDisconnectSeen ==
    /\ last.op = "get_axis_status"
    /\ last.pre.connected
    /\ last.pre.consecutive_read_failures = 2
    /\ last.oracle.ftail = Exc
    /\ last.oracle.rtail = Err
    /\ consecutive_read_failures = 3
    /\ ~connected
    /\ connection_error = "Read failures"

\* the original C6: with connected false after 3 failures, a read the
\* transport would answer with a value resets the counter to 0
LossEndsWithRead ==
    ( /\ Accessed
      /\ last.args[1] \in Axes
      /\ ~last.pre.connected
      /\ last.pre.driver
      /\ last.pre.consecutive_read_failures >= 3
      /\ last.oracle.rtail.k = "val"
      /\ last.oracle.ftail.k = "val" )
    => consecutive_read_failures = 0

\* C6 as amended: while connected is false no read is sent and the counter
\* keeps its value; a successful connect resets the counter to 0; a read that
\* succeeds resets it to 0 without a reconnect while connected is true
LossEndsWithConnect ==
    /\ (Accessed /\ ~last.pre.connected) =>
          /\ Gets = {}
          /\ consecutive_read_failures = last.pre.consecutive_read_failures
          /\ ~connected
    /\ (last.op = "connect" /\ last.ret) =>
          consecutive_read_failures = 0 /\ connected
    /\ (Accessed /\ last.pre.connected /\ Gets # {}) =>
          LET k == CHOOSE g \in Gets : \A x \in Gets : x <= g
          IN AnswerTo(last.trace[k].req).k = "val" =>
                consecutive_read_failures = 0 /\ connected

\* connected false after 3 failures, the transport ready to answer a read
\* with a value, clear_faults called: no request is sent and the counter is
\* still 3
LossEndsWithConnectSeen ==
    /\ last.op = "clear_faults"
    /\ last.args[1] \in Axes
    /\ ~last.pre.connected
    /\ last.pre.driver
    /\ last.pre.consecutive_read_failures = 3
    /\ last.oracle.rtail.k = "val"
    /\ last.trace = <<>>
    /\ consecutive_read_failures = 3

\* the methods that open or close the session
Connecting == last.op \in {"connect", "reconnect"}
Disconnecting == last.op \in {"disconnect", "reconnect"}

\* the original C7: connected goes from true to false only when the counter
\* reaches the threshold or on a disconnect, from false to true only on a
\* successful connect, and a failed connect attempt does not change it
LinkChangesAsClaimed ==
    [][ /\ (connected /\ ~connected') =>
              \/ consecutive_read_failures' >= MaxReadFailures
              \/ Disconnecting'
        /\ (~connected /\ connected') => (Connecting' /\ last'.ret)
        /\ (last'.op = "connect" /\ ~last'.ret) => connected' = connected
      ]_vars

\* C7 as amended: connected goes from true to false only when the counter
\* reaches the threshold, on a disconnect, or on a connect attempt that
\* fails; from false to true only on a successful connect
LinkChangesByRule ==
    [][ /\ (connected /\ ~connected') =>
              \/ /\ consecutive_read_failures' >= MaxReadFailures
                 /\ consecutive_read_failures < MaxReadFailures
              \/ Disconnecting'
              \/ last'.op = "connect" /\ ~last'.ret
        /\ (~connected /\ connected') => (Connecting' /\ last'.ret)
      ]_vars

\* a connect attempt made while connected has failed with the counter below
\* the threshold: the link is down without a disconnect and without 3 read
\* failures
LinkChangesByRuleSeen ==
    /\ last.op = "connect"
    /\ ~last.ret
    /\ last.pre.connected
    /\ ~connected
    /\ driver
    /\ consecutive_read_failures < MaxReadFailures
    /\ connection_error = "open failed"

(***************************************************************************)
(* Enabling (checked under SpecEnable).                                    *)
(***************************************************************************)
\* the last call was set_motor_enable(axis, true) for a configured axis
Enabling ==
    /\ last.op = "set_motor_enable"
    /\ last.args[2]
    /\ last.args[1] \in Axes

\* ... of an axis marked enabled / not marked enabled before the call
ReEnabling == Enabling /\ last.pre.motors_enabled[last.args[1]]
FirstEnabling == Enabling /\ ~last.pre.motors_enabled[last.args[1]]

\* the shadow of the axis had the Enable bit before the call
ShadowEnabled == BitAnd(last.pre.output_reg[last.args[1]], BIT_ENABLE) # 0

\* the requests of a call that sent one write, of Enable only, to the output
\* register of the axis
EnableOnly ==
    << [req |-> Request("set", MOTOR_OUTPUT_CLASS, last.args[1],
                        ATTR_OUT_OUTPUT_REG, ToBytes(BIT_ENABLE)),
        n |-> 1] >>

\* the original C8: on an axis marked enabled, no request when the shadow
\* has the Enable bit, and exactly one write, of Enable only, when it has not
ReEnableWritesAsClaimed ==
    ReEnabling =>
        IF ShadowEnabled THEN last.trace = <<>> ELSE last.trace = EnableOnly

\* C8 as amended: on an axis marked enabled, no request when the shadow has
\* the Enable bit; when it has not, exactly one write, of Enable only, while
\* connected, and no request while not connected; the call returns true and
\* the axis stays marked enabled
ReEnableWrites ==
    ReEnabling =>
        /\ last.trace = IF ShadowEnabled THEN <<>>
                        ELSE IF last.pre.connected /\ last.pre.driver
                        THEN EnableOnly
                        ELSE <<>>
        /\ last.ret
        /\ motors_enabled[last.args[1]]

\* an axis marked enabled whose shadow had lost the Enable bit was enabled
\* again while connected: one write, of Enable only, which the shadow took
ReEnableWritesSeen ==
    /\ ReEnabling
    /\ ~ShadowEnabled
    /\ last.pre.connected
    /\ last.trace = EnableOnly
    /\ output_reg[last.args[1]] = BIT_ENABLE

\* C9: a first-time enable fails exactly when the shutdown register read
\* after the Enable write has a bit outside the non-blocking mask of the
\* fault classification, and marks the axis enabled when it succeeds
EnableFailsOnBlockingFault ==
    FirstEnabling =>
        LET read == last.calls[1].info
        IN /\ ~last.ret = (read.some /\ BlockingFault(read.shutdown))
           /\ last.ret => motors_enabled[last.args[1]]

(***************************************************************************)
(* Stopping (checked under SpecStop).                                      *)
(***************************************************************************)
\* the stop_motor calls the last call made for configured axes
Stops ==
    {k \in 1..Len(last.calls) :
        last.calls[k].op = "stop_motor" /\ last.calls[k].axis \in Axes}

\* a read-back of the output register that shows the Load bit clear
Verified(readback) ==
    readback.some /\ BitAnd(readback.val, BIT_LOAD_VEL_MOVE) = 0

\* C10: stop_motor makes 1 to 3 read-backs in step 5, stops at the first that
\* shows the Load bit clear, and returns true exactly when the last one shows
\* it clear, whatever steps 1, 4 and 6 observed
StopReturnsVerification ==
    \A k \in Stops :
        LET info == last.calls[k].info
            n == Len(info.readbacks)
        IN /\ n \in 1..ClearAttempts
           /\ \A j \in 1..(n - 1) : ~Verified(info.readbacks[j])
           /\ last.calls[k].ret = Verified(info.readbacks[n])
           /\ info.attempts = n
           /\ ~last.calls[k].ret => n = ClearAttempts

\* a stop_motor that never saw the ack set in the 50 polls of step 4, saw it
\* clear in step 6, and returned true on the first read-back
StopReturnsVerificationSeen ==
    /\ last.op = "stop_motor"
    /\ last.ret
    /\ \E k \in Stops :
          /\ ~last.calls[k].info.ack_found
          /\ last.calls[k].info.polls4 = StopPolls
          /\ last.calls[k].info.ack_cleared
          /\ Len(last.calls[k].info.readbacks) = 1

\* how often the last call sent the request req, counted over the first k
\* entries of its trace
RECURSIVE SentIn(_, _)
SentIn(req, k) ==
    IF k = 0 THEN 0
    ELSE SentIn(req, k - 1)
           + (IF last.trace[k].req = req THEN last.trace[k].n ELSE 0)

Sent(req) == SentIn(req, Len(last.trace))

\* the write of value v to the output register of an axis, and its read-back
OutputWrite(axis, v) ==
    Request("set", MOTOR_OUTPUT_CLASS, axis, ATTR_OUT_OUTPUT_REG, ToBytes(v))
OutputRead(axis) ==
    Request("get", MOTOR_OUTPUT_CLASS, axis, ATTR_OUT_OUTPUT_REG, <<>>)

\* the last call was a stop_motor for a configured axis that started and
\* ended with the link up
StoppedOnline ==
    /\ last.op = "stop_motor"
    /\ last.args[1] \in Axes
    /\ last.pre.connected
    /\ connected

\* C11: step 5 of stop_motor makes one attempt after another up to 3, ending
\* at the first read-back with the Load bit clear: with the link up, each
\* attempt is one write of Enable alone and one read of the output register,
\* and Enable|Load is written once (step 3); a call that finds the ack at the
\* second poll and the Load bit clear at the first read-back makes one
\* attempt and returns true; a call whose read-backs never show the Load bit
\* clear makes 3 attempts and returns false
StopRetriesBounded ==
    /\ \A k \in Stops :
          LET info == last.calls[k].info
          IN /\ info.attempts \in 1..ClearAttempts
             /\ (info.ack_found /\ info.polls4 = 2
                   /\ Verified(info.readbacks[1]))
                  => (info.attempts = 1 /\ last.calls[k].ret)
             /\ (\A j \in 1..Len(info.readbacks) :
                    ~Verified(info.readbacks[j]))
                  => (info.attempts = ClearAttempts /\ ~last.calls[k].ret)
    /\ StoppedOnline =>
          LET info == last.calls[1].info
              axis == last.args[1]
          IN /\ Sent(OutputRead(axis)) = info.attempts
             /\ Sent(OutputWrite(axis, BIT_ENABLE))
                  = info.attempts + (IF info.pending THEN 1 ELSE 0)
             /\ Sent(OutputWrite(axis, BIT_ENABLE + BIT_LOAD_VEL_MOVE)) = 1

\* a stop_motor with the link up that found the ack at the second poll of
\* step 4, verified the Load bit clear at the first read-back and returned
\* true
StopRetriesBoundedSeen ==
    /\ StoppedOnline
    /\ last.ret
    /\ last.calls[1].info.ack_found
    /\ last.calls[1].info.polls4 = 2
    /\ last.calls[1].info.attempts = 1
    /\ Sent(OutputWrite(last.args[1], BIT_ENABLE)) = 1

\* C12: stop_all calls stop_motor once for each axis 1..num_axes in
\* ascending order, also after a stop_motor that failed, and returns true
\* exactly when every one of them returned true
StopAllCoversAxes ==
    last.op = "stop_all" =>
        /\ Len(last.calls) = NumAxes
        /\ \A k \in 1..Len(last.calls) :
              last.calls[k].op = "stop_motor" /\ last.calls[k].axis = k
        /\ last.ret = (\A k \in 1..Len(last.calls) : last.calls[k].ret)

\* a stop_all with the link up whose first stop_motor failed and that went
\* on to the last axis, sending requests for it
StopAllCoversAxesSeen ==
    /\ last.op = "stop_all"
    /\ last.pre.connected
    /\ ~last.calls[1].ret
    /\ ~last.ret
    /\ Len(last.calls) = NumAxes
    /\ Sent(OutputRead(NumAxes)) > 0

(***************************************************************************)
(* stop of the Control Layer (checked under Spec).                         *)
(***************************************************************************)
\* C13: stop returns what stop_all returned, the conjunction of the results
\* of one stop_motor per axis, and when it returns true every cached
\* velocity is 0 afterwards
StopResetsCache ==
    last.op = "stop" =>
        /\ Len(last.calls) = NumAxes
        /\ last.ret = (\A k \in 1..Len(last.calls) : last.calls[k].ret)
        /\ last.ret => \A i \in Axes : last_velocities[i] = 0

\* a stop that returned true with a nonzero velocity cached before it
StopResetsCacheSeen ==
    /\ last.op = "stop"
    /\ last.ret
    /\ \E i \in Axes : last.pre.last_velocities[i] # 0
    /\ \A i \in Axes : last_velocities[i] = 0

(***************************************************************************)
(* Disabling (checked under SpecEnable).                                   *)
(***************************************************************************)
\* the last call was set_motor_enable(axis, False) for a configured axis
Disabling ==
    /\ last.op = "set_motor_enable"
    /\ last.args[1] \in Axes
    /\ ~last.args[2]

\* C14: set_motor_enable(axis, false) on a configured axis, whatever the
\* shadow and the flag were, returns true with the flag cleared after
\* attempting one write of 0 to the output register and nothing else: with
\* the link up that write is the one request sent, with the link down none
\* is sent
DisableAlwaysWrites ==
    Disabling =>
        /\ last.ret
        /\ ~motors_enabled[last.args[1]]
        /\ \A a \in Axes \ {last.args[1]} :
              motors_enabled[a] = last.pre.motors_enabled[a]
        /\ last.trace =
              IF last.pre.connected /\ last.pre.driver
              THEN <<[req |-> OutputWrite(last.args[1], 0), n |-> 1]>>
              ELSE <<>>

\* a disable with the link up of an axis whose flag was clear and whose
\* shadow was 0 already: the write is sent all the same
DisableAlwaysWritesSeen ==
    /\ Disabling
    /\ last.pre.connected
    /\ ~last.pre.motors_enabled[last.args[1]]
    /\ last.pre.output_reg[last.args[1]] = 0
    /\ Sent(OutputWrite(last.args[1], 0)) = 1

(***************************************************************************)
(* The methods that take an axis (checked under SpecAxis).                 *)
(***************************************************************************)
AxisOps ==
    {"clear_faults", "set_motor_enable", "set_velocity", "trigger_move",
     "stop_motor", "get_axis_status"}

\* the last call was one of them, given an axis outside 1..num_axes
OffRange == last.op \in AxisOps /\ last.args[1] \notin Axes

\* C15: a Protocol Layer method given an axis outside 1..num_axes returns
\* false (get_axis_status: a status of defaults) without sending a request
\* and without changing any field: the shadow, the enabled flags, the failure
\* counter and the link state are as before
OffRangeRefused ==
    OffRange =>
        /\ last.trace = <<>>
        /\ Fields = last.pre
        /\ last.ret = IF last.op = "get_axis_status" THEN AxisStatus0
                      ELSE FALSE

\* a method refused for the index after the last axis, with the link up and
\* the shadow of an axis set
OffRangeRefusedSeen ==
    /\ OffRange
    /\ last.op = "stop_motor"
    /\ last.args[1] = NumAxes + 1
    /\ connected
    /\ \E a \in Axes : output_reg[a] # 0

\* the last entry of the last call's trace
LastSent == last.trace[Len(last.trace)]

\* the last call was trigger_move for a configured axis
Triggering == last.op = "trigger_move" /\ last.args[1] \in Axes

\* C18: trigger_move on a configured axis ends with the write of
\* Enable|LoadVelocityMove and returns its result: with the link up at the
\* end the last request sent is that write, sent once, also after 10 polls
\* that did not see a pending ack clear, and the call returns whether the
\* write went through; with the link down the write sends nothing and the
\* call returns false; whenever the call returns true the shadow of the axis
\* is Enable|LoadVelocityMove
TriggerEndsWithLoad ==
    Triggering =>
        /\ connected =>
              /\ LastSent = [req |-> OutputWrite(last.args[1],
                                       BIT_ENABLE + BIT_LOAD_VEL_MOVE),
                             n |-> 1]
              /\ last.ret = (last.oracle.wtail.k # "exc")
        /\ ~connected => ~last.ret
        /\ ~last.pre.connected => last.trace = <<>>
        /\ last.ret =>
              output_reg[last.args[1]] = BIT_ENABLE + BIT_LOAD_VEL_MOVE
        /\ last.calls[1].info.pending =>
              last.calls[1].info.polls \in 1..TriggerPolls

\* a trigger_move whose pending ack did not clear in 10 polls and that wrote
\* Enable|LoadVelocityMove and returned true all the same
TriggerEndsWithLoadSeen ==
    /\ Triggering
    /\ last.calls[1].info.pending
    /\ ~last.calls[1].info.ack_cleared
    /\ last.calls[1].info.polls = TriggerPolls
    /\ last.ret
    /\ output_reg[last.args[1]] = BIT_ENABLE + BIT_LOAD_VEL_MOVE

\* the last call was set_velocity for a configured axis
SettingVelocity == last.op = "set_velocity" /\ last.args[1] \in Axes

\* a write of value v to attribute attr of the Motor Output object of axis
OutputAttrWrite(axis, attr, v) ==
    [req |-> Request("set", MOTOR_OUTPUT_CLASS, axis, attr, ToBytes(v)),
     n |-> 1]

\* C19: set_velocity on a configured axis returns true whether its writes
\* went through or not; with the link up it sends, in this order, the
\* velocity limit |velocity| + 100000, the acceleration, the deceleration
\* (the acceleration's value) and the signed jog velocity, then reads the
\* jog velocity back; with the link down it sends nothing
VelocityWritesInOrder ==
    SettingVelocity =>
        LET axis == last.args[1]
            v == last.args[2]
            accel == last.args[3]
        IN /\ last.ret
           /\ last.trace =
                 IF last.pre.connected
                 THEN << OutputAttrWrite(axis, ATTR_OUT_VEL_LIMIT,
                             (IF v < 0 THEN 0 - v ELSE v) + VelHeadroom),
                         OutputAttrWrite(axis, ATTR_OUT_ACCEL, accel),
                         OutputAttrWrite(axis, ATTR_OUT_DECEL, accel),
                         OutputAttrWrite(axis, ATTR_OUT_JOG_VEL, v),
                         [req |-> Request("get", MOTOR_OUTPUT_CLASS, axis,
                                          ATTR_OUT_JOG_VEL, <<>>),
                          n |-> 1] >>
                 ELSE <<>>

\* a set_velocity of a negative velocity with the link up whose four writes
\* all failed and that returned true
VelocityWritesInOrderSeen ==
    /\ SettingVelocity
    /\ last.pre.connected
    /\ last.args[2] < 0
    /\ last.calls[1].info.wrote = <<FALSE, FALSE, FALSE, FALSE>>
    /\ last.ret

(***************************************************************************)
(* The fault flag of a status read (checked under SpecStatus).             *)
(***************************************************************************)
\* bit b of a register value x >= 0
BitOf(x, b) == (x \div (2 ^ b)) % 2

\* x has a bit that the non-blocking mask 0x421 (bits 0, 5 and 10) lacks
OutsideMask(x) == \E b \in 0..30 : BitOf(x, b) = 1 /\ b \notin {0, 5, 10}

\* the register values the transport may hold for a status read
ShutdownVals ==
    RegVals \cup {NON_BLOCKING, NON_BLOCKING - 1, NON_BLOCKING + 2}

\* the last call was get_axis_status for a configured axis with the link up,
\* every read answered with the register value x
StatusRead(x) ==
    /\ last.op = "get_axis_status"
    /\ last.args[1] \in Axes
    /\ last.pre.connected
    /\ last.oracle.rtail = Val(x)

\* C16: a status read that gets the value x for the shutdown register stores
\* x unchanged in the status and sets fault exactly when x has a bit outside
\* the non-blocking mask: the mask itself and its parts give fault = false
ShutdownClassified ==
    \A x \in ShutdownVals :
        StatusRead(x) =>
            /\ last.ret.shutdown = x
            /\ last.ret.fault = OutsideMask(x)

\* a status read that got exactly the non-blocking mask and reports no fault
ShutdownClassifiedSeen ==
    /\ StatusRead(NON_BLOCKING)
    /\ last.ret.shutdown = NON_BLOCKING
    /\ ~last.ret.fault

(***************************************************************************)
(* clear_faults (checked under SpecEnable).                                *)
(***************************************************************************)
\* the last call was clear_faults for a configured axis
Clearing == last.op = "clear_faults" /\ last.args[1] \in Axes

\* C17: clear_faults on a configured axis returns true only if the
\* verification read showed the shutdown register to be 0, and false in
\* every other case
ClearNeedsZero ==
    Clearing =>
        last.ret = (last.calls[1].info.some /\ last.calls[1].info.shutdown = 0)

(***************************************************************************)
(* The lock of the Control Layer (checked under SpecThreads).              *)
(***************************************************************************)
\* thread t is at a statement that reads or writes the velocity cache or the
\* counters
AtCountersOrCache(t) ==
    pc[t] \in {"drive_velocity", "diag.total_commands_sent",
               "diag.total_errors"}

\* C20: a thread inside a public Control Layer call owns the lock, from the
\* first statement to the return, and so does a thread about to read or
\* write the velocity cache or the counters
LockCoversCalls ==
    \A t \in Threads :
        /\ pc[t] # "idle" => lock = t
        /\ AtCountersOrCache(t) => lock = t

(***************************************************************************)
(* The consumer's periodic loop (checked under SpecNode).                  *)
(***************************************************************************)
\* the last call was a tick of the loop that found the link down, with the
\* reconnect interval passed and the transport ready to accept a session
LoopFoundLoss ==
    /\ last.op = "main_loop"
    /\ ~last.pre.connected
    /\ last.args[1]
    /\ last.args[2] = "ok"

\* C21: once connected has become false the periodic loop invokes reconnect
\* through the Control Layer, and if the transport then accepts a session
\* the loop ends with connected true again
LoopReconnects == LoopFoundLoss => (connected /\ ~last.raised)

(***************************************************************************)
(* The Control Layer's methods over a list of axes (checked under          *)
(* SpecMotors).                                                            *)
(***************************************************************************)
\* the last call was enable_motors, disable_motors or clear_faults; the
\* Protocol Layer method it calls per axis
ListOps == {"enable_motors", "disable_motors", "clear_faults"}
OverList == last.op \in ListOps
PerAxisOp ==
    IF last.op = "clear_faults" THEN "clear_faults" ELSE "set_motor_enable"

\* the Protocol Layer calls of the last call that succeeded, and that failed
Succeeded == {k \in 1..Len(last.calls) : last.calls[k].ret}
Refused == {k \in 1..Len(last.calls) : ~last.calls[k].ret}

\* C22: enable_motors, disable_motors and clear_faults make one Protocol
\* Layer call per listed axis, in the order of the list, whatever the
\* earlier ones returned; they return true exactly when every one of these
\* calls did, and the command counter grows by the number of calls that
\* succeeded, the error counter by the number that failed
ListAttemptsEveryAxis ==
    OverList =>
        /\ Len(last.calls) = Len(last.args[1])
        /\ \A k \in 1..Len(last.calls) :
              /\ last.calls[k].op = PerAxisOp
              /\ last.calls[k].axis = last.args[1][k]
              /\ last.op = "enable_motors" => last.calls[k].arg = TRUE
              /\ last.op = "disable_motors" => last.calls[k].arg = FALSE
        /\ last.ret = (Refused = {})
        /\ commands_sent = last.pre.commands_sent + Cardinality(Succeeded)
        /\ errors = last.pre.errors + Cardinality(Refused)

\* a call over a list in which an axis failed and a later axis succeeded
ListAttemptsEveryAxisSeen ==
    /\ OverList
    /\ \E j \in Refused : \E k \in Succeeded : j < k
    /\ ~last.ret
    /\ commands_sent > last.pre.commands_sent
    /\ errors > last.pre.errors

(***************************************************************************)
(* The Control Layer's counters (checked under SpecControl).               *)
(***************************************************************************)
\* C23: no step of the Control Layer, shutdown and initialize included,
\* makes the commands-sent counter or the error counter smaller
CountersMonotonic ==
    [][commands_sent' >= commands_sent /\ errors' >= errors]_vars

\* an initialize that found the link down and brought it up, with both
\* counters above 0
CountersMonotonicSeen ==
    /\ last.op = "initialize"
    /\ ~last.pre.connected
    /\ last.ret
    /\ commands_sent > 0
    /\ errors > 0

(***************************************************************************)
(* shutdown (checked under SpecShutdown).                                  *)
(***************************************************************************)
ShuttingDown == last.op = "shutdown"

\* the places in the last call's requests where the session was closed
Closes == {k \in 1..Len(last.trace) : last.trace[k].req.svc = "close"}

\* C24: shutdown calls stop_motor for every axis in ascending order and then
\* disconnect; nothing is sent to the device after the session is closed,
\* and a session that was open is closed and the link marked down whatever
\* the stops returned
ShutdownStopsThenCloses ==
    ShuttingDown =>
        /\ Len(last.calls) = NumAxes + 1
        /\ \A a \in Axes :
              last.calls[a].op = "stop_motor" /\ last.calls[a].axis = a
        /\ last.calls[NumAxes + 1].op = "disconnect"
        /\ \A k \in Closes : k = Len(last.trace)
        /\ last.pre.driver => Closes # {}
        /\ ~connected
        /\ ~driver

\* a shutdown of a live link in which a stop failed after requests to the
\* device, the session closed at the end
ShutdownStopsThenClosesSeen ==
    /\ ShuttingDown
    /\ last.pre.connected
    /\ \E a \in Axes : ~last.calls[a].ret
    /\ Len(last.trace) > 1
    /\ last.trace[1].req.svc \in {"get", "set"}
    /\ Closes = {Len(last.trace)}

(***************************************************************************)
(* The fields of an AxisStatus (checked under SpecFields).                 *)
(***************************************************************************)
\* the last call was get_axis_status on a configured axis with the link up
ReadingFields ==
    /\ last.op = "get_axis_status"
    /\ last.args[1] \in Axes
    /\ last.pre.connected

\* the transport's answer to the j-th read as a read result
Offered(j) ==
    LET a == last.oracle.script[j]
    IN [some |-> a.k = "val", val |-> IF a.k = "val" THEN FromBytes(a.v) ELSE 0]

NotRead == [some |-> FALSE, val |-> 0]

\* the AxisStatus made of the five read results r
StatusOf(r) ==
    [WithShutdownReg(WithStatusReg(AxisStatus0, r[1]), r[2])
       EXCEPT !.position = Or(r[3], AxisStatus0.position),
              !.velocity = Or(r[4], AxisStatus0.velocity),
              !.torque = Or(r[5], AxisStatus0.torque)]

\* the consecutive reads that raised, counted up to the j-th read of the
\* last call; a read is made only while the count is below the threshold
RECURSIVE RaisedUpTo(_)
RaisedUpTo(j) ==
    IF j = 0 THEN last.pre.consecutive_read_failures
    ELSE LET c == RaisedUpTo(j - 1)
             a == last.oracle.script[j]
         IN IF c >= MaxReadFailures THEN c
            ELSE CASE a.k = "exc" -> c + 1
                   [] a.k = "val" -> 0
                   [] OTHER -> c

\* the j-th read was made: the link was still up
Made(j) == RaisedUpTo(j - 1) < MaxReadFailures

\* the original C25: all five attributes are read whatever the earlier reads
\* gave, and each field has the value of its attribute when the transport
\* answered that read with a value and its default when it did not
FieldReadsIndependent ==
    ReadingFields =>
        /\ Len(last.trace) = StatusReads
        /\ last.ret = StatusOf([j \in 1..StatusReads |-> Offered(j)])

\* C25: a read that fails leaves the fields of its attribute at their
\* defaults and the later attributes are still read and fill their fields,
\* as long as the link is up; once a read is the third in a row to raise, the
\* link is down, the attributes after it are not requested and their fields
\* keep their defaults
FieldReadsUntilLoss ==
    ReadingFields =>
        /\ Len(last.trace) = Cardinality({j \in 1..StatusReads : Made(j)})
        /\ last.ret = StatusOf([j \in 1..StatusReads |->
                                  IF Made(j) THEN Offered(j) ELSE NotRead])
        /\ connected = (RaisedUpTo(StatusReads) < MaxReadFailures)

\* the read of the shutdown register raised and the read of the velocity
\* gave an empty result: their fields are at the defaults, the others filled
FieldReadsUntilLossSeen ==
    /\ ReadingFields
    /\ last.oracle.script = <<Val(Busy), Exc, Val(Busy), Err, Val(Busy)>>
    /\ Len(last.trace) = StatusReads
    /\ last.ret = [enabled |-> TRUE, fault |-> FALSE, moving |-> TRUE,
                   homed |-> TRUE, position |-> Busy, velocity |-> 0,
                   torque |-> Busy, shutdown |-> 0]

(***************************************************************************)
(* The length of the status (checked under SpecConfig).                    *)
(***************************************************************************)
\* C26: read_status returns as many AxisStatus as the controller was built
\* with axes, and read_diagnostics as many fault flags, whatever that number
StatusLengthIsAxisCount ==
    /\ last.op = "read_status" =>
          ~last.raised /\ Len(last.ret.axes) = num_axes
    /\ last.op = "read_diagnostics" =>
          ~last.raised /\ Len(last.ret.axis_faults) = num_axes

(***************************************************************************)
(* Writing and reading back (checked under SpecRoundTrip).                 *)
(***************************************************************************)
\* the last call wrote a value to a configured axis over a live link and
\* read it back
Tripped == last.op = "round_trip" /\ last.pre.connected

\* C27: the read that follows a write of a value, the transport storing the
\* bytes written, returns that value, whatever the value
RoundTripReturnsValue ==
    Tripped =>
        /\ last.ret.wrote
        /\ last.ret.some
        /\ WideOf(last.ret.val) = last.args[3]

(***************************************************************************)
(* Exceptions out of the Protocol Layer (checked under SpecConfig).        *)
(***************************************************************************)
\* the Protocol Layer's public methods
ProtocolOps ==
    {"connect", "disconnect", "reconnect", "clear_faults", "set_motor_enable",
     "set_velocity", "trigger_move", "stop_motor", "stop_all",
     "get_axis_status", "get_all_status"}

\* C28: no public method of the Protocol Layer ends by raising, whatever the
\* transport does and whatever axis count the controller was built with
ProtocolNeverRaises == last.op \in ProtocolOps => ~last.raised

(***************************************************************************)
(* home (checked under SpecHome).                                          *)
(***************************************************************************)
Homing == last.op = "home"

\* C29: home returns success, calls no Protocol Layer method, sends nothing
\* to the device and leaves every field as it was: the velocity cache, the
\* two counters, the shadow of the output registers and the enabled flags
HomeTouchesNothing ==
    Homing =>
        /\ last.ret = TRUE
        /\ last.calls = <<>>
        /\ last.trace = <<>>
        /\ Fields = last.pre

\* a home of a listed axis over a live link, with the cache, both counters,
\* the shadow and an enabled flag off their initial values
HomeTouchesNothingSeen ==
    /\ Homing
    /\ last.args[1] # <<>>
    /\ connected
    /\ \E a \in Axes : last_velocities[a] # 0
    /\ commands_sent > 0
    /\ errors > 0
    /\ \E a \in Axes : output_reg[a] # 0
    /\ \E a \in Axes : motors_enabled[a]

(***************************************************************************)
(* The first enable of an axis (checked under SpecEnable).                 *)
(***************************************************************************)
\* a request sent once
Once(req) == [req |-> req, n |-> 1]

\* C30: set_motor_enable(axis, true) on an axis not marked enabled sends,
\* with the link up, the writes ClearAlerts|ClearMotorFault, 0 and Enable to
\* the output register, in this order, and then one read of the shutdown
\* register, and nothing else; with the link down it sends nothing; the axis
\* is marked enabled at the end exactly when the call returns true
FirstEnableInOrder ==
    FirstEnabling =>
        /\ last.trace =
              IF last.pre.connected
              THEN << Once(OutputWrite(last.args[1],
                               BIT_CLEAR_ALERTS + BIT_CLEAR_MOTOR_FAULT)),
                      Once(OutputWrite(last.args[1], 0)),
                      Once(OutputWrite(last.args[1], BIT_ENABLE)),
                      Once(Request("get", MOTOR_INPUT_CLASS, last.args[1],
                                   ATTR_IN_SHUTDOWN_REG, <<>>)) >>
              ELSE <<>>
        /\ motors_enabled[last.args[1]] = last.ret

\* a first enable over a live link that the shutdown register refused: the
\* three writes and the read were sent and the axis is not marked enabled
FirstEnableInOrderSeen ==
    /\ FirstEnabling
    /\ last.pre.connected
    /\ Len(last.trace) = 4
    /\ last.calls[1].info.some
    /\ ~last.ret
    /\ ~motors_enabled[last.args[1]]
    /\ output_reg[last.args[1]] = BIT_ENABLE

(***************************************************************************)
(* The pre-flight fault clear of trigger_move (checked under SpecTrigger). *)
(***************************************************************************)
\* the answer the transport gave to the first request of the last call
FirstAnswer ==
    IF last.oracle.script # <<>> THEN Head(last.oracle.script)
    ELSE last.oracle.rtail

\* the last call was a trigger_move whose read of the shutdown register
\* returned a value
ShutdownRead ==
    /\ Triggering
    /\ last.pre.connected /\ last.pre.driver
    /\ FirstAnswer.k = "val"

\* the read of the status register of an axis
AckRead(axis) ==
    Request("get", MOTOR_INPUT_CLASS, axis, ATTR_IN_STATUS_REG, <<>>)

\* the requests of the pre-flight fault clear of an axis, in order
FaultClear(axis) ==
    <<Once(OutputWrite(axis, BIT_CLEAR_ALERTS + BIT_CLEAR_MOTOR_FAULT)),
      Once(OutputWrite(axis, 0)),
      Once(OutputWrite(axis, BIT_ENABLE))>>

\* C31: trigger_move on a configured axis clears faults first exactly when
\* its read of the shutdown register returns a non-zero value: it then sends
\* the writes of ClearAlerts|ClearMotorFault, of 0 and of Enable, once each
\* and in this order, right after the shutdown read and before the first
\* read of the status register, and the call ends with the write of
\* Enable|LoadVelocityMove; when the register reads 0, or the read returns
\* nothing, the writes of ClearAlerts|ClearMotorFault and of 0 are never
\* sent and no write comes before the read of the status register
PreflightOnShutdown ==
    Triggering =>
        /\ (ShutdownRead /\ FromBytes(FirstAnswer.v) # 0) =>
              /\ Len(last.trace) >= 6
              /\ SubSeq(last.trace, 2, 4) = FaultClear(last.args[1])
              /\ last.trace[5].req = AckRead(last.args[1])
              /\ LastSent = Once(OutputWrite(last.args[1],
                                             BIT_ENABLE + BIT_LOAD_VEL_MOVE))
              /\ last.calls[1].info.preflight
        /\ ~(ShutdownRead /\ FromBytes(FirstAnswer.v) # 0) =>
              /\ Sent(OutputWrite(last.args[1], BIT_CLEAR_ALERTS
                                                  + BIT_CLEAR_MOTOR_FAULT)) = 0
              /\ Sent(OutputWrite(last.args[1], 0)) = 0
              /\ Len(last.trace) >= 2 =>
                    last.trace[2].req = AckRead(last.args[1])
              /\ ~last.calls[1].info.preflight

\* a trigger_move that cleared faults, found a pending ack and started the
\* move, and one that read the shutdown register as 0 and only checked the
\* ack before it started the move
PreflightOnShutdownSeen ==
    /\ ShutdownRead
    /\ FromBytes(FirstAnswer.v) # 0
    /\ last.calls[1].info.pending
    /\ last.ret

PreflightSkippedSeen ==
    /\ ShutdownRead
    /\ FromBytes(FirstAnswer.v) = 0
    /\ last.calls[1].info.pending
    /\ last.ret

(***************************************************************************)
(* stop_motor runs to its end (checked under SpecStop).                    *)
(***************************************************************************)
\* the write of 0 to the jog velocity of an axis
JogZero(axis) ==
    Request("set", MOTOR_OUTPUT_CLASS, axis, ATTR_OUT_JOG_VEL, ToBytes(0))

\* the last call sent the requests a, b and c in this order
InOrder(a, b, c) ==
    \E i, j, k \in 1..Len(last.trace) :
        /\ i < j /\ j < k
        /\ last.trace[i].req = a
        /\ last.trace[j].req = b
        /\ last.trace[k].req = c

StopNeverAckedSeen ==
    /\ StoppedOnline
    /\ ~last.calls[1].info.ack_found
    /\ last.calls[1].info.polls4 = StopPolls
    /\ last.calls[1].info.attempts = ClearAttempts
    /\ ~last.ret

(***************************************************************************)
(* The shadow of the output register (checked under SpecShadow).           *)
(***************************************************************************)
\* the number of attribute requests the last call sent in the first k
\* entries of its trace
RECURSIVE AskedIn(_)
AskedIn(k) ==
    IF k = 0 THEN 0
    ELSE AskedIn(k - 1)
           + (IF last.trace[k].req.svc \in {"get", "set"}
              THEN last.trace[k].n ELSE 0)

\* the answer the transport gave to the last request of entry k
AnswerAt(k) ==
    IF AskedIn(k) <= Len(last.oracle.script)
    THEN last.oracle.script[AskedIn(k)]
    ELSE AnswerTo(last.trace[k].req)

\* the writes to the output register of an axis that the last call sent and
\* that did not raise
OutputWrites(axis) ==
    {k \in 1..Len(last.trace) :
        /\ last.trace[k].req.svc = "set"
        /\ last.trace[k].req.cls = MOTOR_OUTPUT_CLASS
        /\ last.trace[k].req.attr = ATTR_OUT_OUTPUT_REG
        /\ last.trace[k].req.inst = axis
        /\ AnswerAt(k).k # "exc"}

Latest(S) == CHOOSE k \in S : \A j \in S : j <= k

\* the value the last call wrote last to the output register of an axis, or
\* old when none of its writes went through
LastWritten(axis, old) ==
    IF OutputWrites(axis) = {} THEN old
    ELSE FromBytes(last.trace[Latest(OutputWrites(axis))].req.data)

AttrOps == {"_write_attr", "_read_attr", "_read_attr_float"}

\* the fields an attribute access may touch are as they were before the
\* last call
LinkFieldsKept ==
    /\ consecutive_read_failures = last.pre.consecutive_read_failures
    /\ connected = last.pre.connected
    /\ connection_error = last.pre.connection_error
    /\ output_reg = last.pre.output_reg

\* C34: an attribute read or write made while not connected returns failure
\* (None, False), sends no request, and leaves the failure counter, the
\* connectivity flag, the error string and the shadow as they were; so does
\* every method built on them that starts with the link down; and a write
\* leaves the failure counter and the connectivity flag as they were also
\* when it fails with the link up
OfflineAccessIsNoOp ==
    /\ (last.op \in AttrOps /\ ~last.pre.connected) =>
          /\ ~last.ret
          /\ last.trace = <<>>
          /\ LinkFieldsKept
    /\ (Accessed /\ ~last.pre.connected) =>
          /\ last.trace = <<>>
          /\ LinkFieldsKept
    /\ last.op = "_write_attr" =>
          /\ LinkFieldsKept
          /\ last.pre.connected =>
                /\ Len(last.trace) = 1
                /\ last.ret = (last.oracle.wtail.k # "exc")

\* a read made after read failures took the link down, the shadow holding
\* Enable, that the transport would have answered; and a write that raised
\* with the link up and the counter at 2
OfflineAccessIsNoOpSeen ==
    /\ last.op = "_read_attr"
    /\ ~last.pre.connected
    /\ last.pre.driver
    /\ last.pre.connection_error # ""
    /\ last.pre.consecutive_read_failures = MaxReadFailures
    /\ last.pre.output_reg[1] = BIT_ENABLE
    /\ last.oracle.rtail = Val(BIT_ENABLED)

FailingWriteSeen ==
    /\ last.op = "_write_attr"
    /\ last.pre.connected
    /\ ~last.ret
    /\ consecutive_read_failures = MaxReadFailures - 1

(***************************************************************************)
(* The velocity cache and the shadow (checked under SpecControl).          *)
(***************************************************************************)
\* C35: whenever the cached velocity of an axis is nonzero, the shadow of
\* that axis is Enable|LoadVelocityMove, so that a velocity command is never
\* skipped as unchanged for an axis whose trigger has been dropped since
CacheImpliesTrigger ==
    \A a \in 1..num_axes :
        last_velocities[a] # 0 =>
            output_reg[a] = BIT_ENABLE + BIT_LOAD_VEL_MOVE

(***************************************************************************)
(* Writes of the Enable bit (checked under SpecShadow).                    *)
(***************************************************************************)
\* the writes to the output register of an axis that the last call sent
\* with the Enable bit in the value
EnableWrites(axis) ==
    {k \in 1..Len(last.trace) :
        /\ last.trace[k].req.svc = "set"
        /\ last.trace[k].req.cls = MOTOR_OUTPUT_CLASS
        /\ last.trace[k].req.attr = ATTR_OUT_OUTPUT_REG
        /\ last.trace[k].req.inst = axis
        /\ BitAnd(FromBytes(last.trace[k].req.data), BIT_ENABLE) # 0}

\* C36: a call that finds an axis not marked enabled sends no write with the
\* Enable bit to the output register of that axis, unless the call is
\* set_motor_enable(axis, true)
NoEnableWhileDisabled ==
    \A a \in Axes :
        (/\ ~last.pre.motors_enabled[a]
         /\ ~(last.op = "set_motor_enable" /\ last.args = <<a, TRUE>>))
            => EnableWrites(a) = {}

(***************************************************************************)
(* Enabling with the link down (checked under SpecEnable).                 *)
(***************************************************************************)
\* C37: set_motor_enable(axis, true) called while not connected for an axis
\* not marked enabled does not return true and does not mark the axis
\* enabled
OfflineEnableFails ==
    (FirstEnabling /\ ~last.pre.connected) =>
        /\ ~last.ret
        /\ ~motors_enabled[last.args[1]]

(***************************************************************************)
(* The shadow after a stop (checked under SpecShadow).                     *)
(***************************************************************************)
\* C38: whenever stop_motor returns true, the shadow of its axis is Enable
\* alone, whichever of its writes went through
StopLeavesEnableOnly ==
    (last.op = "stop_motor" /\ last.args[1] \in Axes /\ last.ret) =>
        output_reg[last.args[1]] = BIT_ENABLE

(***************************************************************************)
(* The consecutive-read-failure counter (checked under SpecAccess).        *)
(***************************************************************************)
\* C39: the counter is never above the threshold of 3 and is below it
\* whenever connected is true; it is 0 after every attribute read that
\* returned a value and after every connect that succeeded
FailureCounterBounded ==
    /\ consecutive_read_failures \in 0..MaxReadFailures
    /\ connected => consecutive_read_failures < MaxReadFailures
    /\ (last.op \in {"_read_attr", "_read_attr_float"} /\ last.ret) =>
          consecutive_read_failures = 0
    /\ (last.op = "connect" /\ last.ret) =>
          connected /\ consecutive_read_failures = 0

\* a connect that succeeded after three read failures had taken the link
\* down, and a read that returned a value after two failures
FailureCounterBoundedSeen ==
    /\ last.op = "connect"
    /\ last.ret
    /\ last.pre.consecutive_read_failures = MaxReadFailures
    /\ ~last.pre.connected
    /\ consecutive_read_failures = 0

CounterResetByReadSeen ==
    /\ last.op = "_read_attr_float"
    /\ last.ret
    /\ last.pre.consecutive_read_failures = MaxReadFailures - 1
    /\ consecutive_read_failures = 0

(***************************************************************************)
(* The snapshot of read_diagnostics (checked under SpecThreads).           *)
(***************************************************************************)
\* C40: when a thread in read_diagnostics has the lock for its status read,
\* the connectivity flag and the two counters it has copied are those of the
\* state the status read starts in: no call of another thread has taken
\* effect since it copied them
SnapshotConsistent ==
    \A t \in Threads :
        pc[t] = "get_all_status" =>
            /\ diag[t].connected = connected
            /\ diag[t].total_commands_sent = commands_sent
            /\ diag[t].total_errors = errors

====
